---- MODULE Spec2Model ----
(***************************************************************************)
(* State-machine model of the sales-ingestion / report-drafting backend:   *)
(* the storage layer (database/connection.py) in both of its modes (the    *)
(* in-memory fallback and the PostgreSQL schema), the ingestion entry      *)
(* point (services/data_ingestion.py), the draft round                     *)
(* (services/ai_agents.py) and the HTTP handlers that drive them (main.py).*)
(*                                                                         *)
(* Request handlers that never suspend are single atomic actions.  The     *)
(* draft round suspends in asyncio.gather, so it is a process with a       *)
(* program counter whose steps interleave with the other handlers.         *)
(***************************************************************************)
EXTENDS Integers, Sequences, FiniteSets, TLC

\* ---------------------------------------------------------------- bounds
MaxUsers == 2          \* users that may be created
MaxFileId == 3         \* file records that may be created (ids handed out)
MaxArticles == 5       \* drafts that may be stored (ids handed out)
MaxRows == 3           \* data rows of a CSV handed to the cleaning call
MaxStored == 6         \* row ids that may be handed out while the backend fails
MaxDay == 2            \* days the clock may advance

\* ------------------------------------------------------ program constants
TopN == 5              \* top_products keeps the first five entries

\* Python None for the Optional[int] ids; real ids start at 1
None == 0

\* ------------------------------------------------------------ input sets
\* Uploaded byte contents.  FileTable gives, for each, what
\* _read_and_clean_csv_dynamic makes of it: parsed = FALSE when no
\* encoding/separator combination yields more than one column, else the
\* cleaned rows of the data frame.  typed = FALSE marks a row whose
\* SalesData construction raises (it is skipped by _convert_to_sales_data).
Contents == {"c1", "c2", "c3", "c4"}
Filenames == {"a.csv", "b.csv"}

Row(p, a, r, d, t) == [product |-> p, sales_amount |-> a, region |-> r, date |-> d, typed |-> t]

FileTable(c) ==
    CASE c = "c1" -> [parsed |-> TRUE,
                      rows |-> << Row("A", 2, "North", 3, TRUE),
                                  Row("B", 1, "North", 1, TRUE),
                                  Row("A", 2, "South", None, TRUE) >>]
      [] c = "c2" -> [parsed |-> TRUE,
                      rows |-> << Row("C", 3, "North", 2, TRUE),
                                  Row("D", 3, "East", 5, TRUE),
                                  Row("E", 1, "East", None, TRUE),
                                  Row("F", 1, "West", 4, TRUE),
                                  Row("G", 2, "West", 4, TRUE) >>]
      [] c = "c3" -> [parsed |-> FALSE, rows |-> << >>]
      [] c = "c4" -> [parsed |-> TRUE,
                      rows |-> << Row("B", 0, "South", 2, TRUE),
                                  Row("Z", 7, "South", None, FALSE) >>]

\* SHA-256 of the bytes: depends on the content only, never on the name
calculate_file_hash(c) ==
    CASE c = "c1" -> "9f1a"
      [] c = "c2" -> "02be"
      [] c = "c3" -> "d41d"
      [] c = "c4" -> "7c55"

\* the five configured personas, in dict order
agents == << "market_analyst", "business_reporter", "sales_strategist",
             "trend_forecaster", "executive_briefer" >>

\* POST /users bodies: no body at all, or a body with a username
\* (an empty username takes the branch that reads the unbound local `time`)
UserRequests == { [body |-> FALSE, username |-> ""],
                  [body |-> TRUE,  username |-> "alice"],
                  [body |-> TRUE,  username |-> ""] }

\* PostgreSQL leaves the order of rows with equal sort keys unspecified;
\* the model lets it be the first-seen order or its reverse
TieOrders == {"first", "last"}

\* ------------------------------------------------------------- variables
VARIABLES
    use_memory,            \* Database.use_memory
    users,                 \* memory_storage["users"] / table users
    sales_data,            \* memory_storage["sales_data"] / table sales_data
    articles,              \* memory_storage["articles"] / table articles
    file_uploads,          \* memory_storage["file_uploads"] / table file_uploads
    file_hashes,           \* memory_storage["file_hashes"]
    id_seq,                \* the SERIAL sequences of the four tables
    current_user_id,       \* main.current_user_id
    resp,                  \* response of the last completed atomic handler
    round,                 \* the draft round in flight
    uploaded,              \* history: <<owner, content>> ingested with success and not cleared since
    clean,                 \* the frame of one _read_and_clean_csv_dynamic call and what becomes of its result
    today,                 \* the day date.today() / CURRENT_DATE gives
    uploads                \* the process_csv calls in flight, by request

vars == << use_memory, users, sales_data, articles, file_uploads, file_hashes,
           id_seq, current_user_id, resp, round, uploaded, clean, today, uploads >>

\* no cleaning call in flight
CleanIdle == [pc |-> "idle"]

\* the upload requests that may be in flight at once
Requests == {1, 2}

\* ------------------------------------------------------- sequence helpers
\* sum(item.sales_amount for item in s), accumulated from the left
SumAmounts(s) ==
    LET partial[i \in 0..Len(s)] == IF i = 0 THEN 0 ELSE partial[i - 1] + s[i].sales_amount
    IN  partial[Len(s)]

Reverse(s) == [i \in 1..Len(s) |-> s[Len(s) + 1 - i]]

Take(s, n) == IF Len(s) <= n THEN s ELSE SubSeq(s, 1, n)

Abs(x) == IF x < 0 THEN -x ELSE x

RECURSIVE GCD(_, _)
GCD(a, b) == IF b = 0 THEN a ELSE GCD(b, a % b)

\* a float quotient, kept exact: the reduced fraction num/den with den > 0
Quotient(n, d) ==
    LET g == GCD(Abs(n), d)
    IN  [num |-> n \div g, den |-> d \div g]

Zero == [num |-> 0, den |-> 1]

\* ------------------------------------------------------------- aggregator
\* rows visible to a scope: every row when no owner is given
ScopeData(table, user_id) ==
    SelectSeq(table, LAMBDA item : user_id = None \/ item.user_id = user_id)

\* keys of the product_sales dict, in insertion (first occurrence) order
FirstSeen(data) ==
    LET firsts == { i \in DOMAIN data : \A j \in 1..(i - 1) : data[j].product # data[i].product }
        nth(k) == CHOOSE i \in firsts : Cardinality({ j \in firsts : j <= i }) = k
    IN  [k \in 1..Cardinality(firsts) |-> data[nth(k)].product]

\* the product_sales dict as its list of items
ProductSales(data) ==
    LET ps == FirstSeen(data)
    IN  [i \in DOMAIN ps |->
            [product |-> ps[i],
             total_sales |-> SumAmounts(SelectSeq(data, LAMBDA r : r.product = ps[i]))]]

\* sorted(items, key=total_sales, reverse=True): stable, so an item stands
\* after the items with a greater key and the earlier items with an equal key
SortedDesc(items) ==
    LET before(i, j) == \/ items[i].total_sales > items[j].total_sales
                        \/ items[i].total_sales = items[j].total_sales /\ i < j
        place(i) == 1 + Cardinality({ j \in DOMAIN items : before(j, i) })
    IN  [k \in DOMAIN items |-> items[CHOOSE i \in DOMAIN items : place(i) = k]]

\* in-memory top_products
TopProductsMemory(data) == Take(SortedDesc(ProductSales(data)), TopN)

\* GROUP BY product ORDER BY total_sales DESC LIMIT 5
TopProductsDb(data, tie) ==
    LET groups == ProductSales(data)
    IN  Take(SortedDesc(IF tie = "first" THEN groups ELSE Reverse(groups)), TopN)

\* mutant of AvgSales: floor division in place of true division
AvgSalesFloorDiv(total_sales, data) ==
    IF Len(data) > 0 THEN Quotient(total_sales \div Len(data), 1) ELSE Zero

\* avg_sales = total_sales / len(data) if data else 0
AvgSales(total_sales, data) ==
    IF Len(data) > 0 THEN Quotient(total_sales, Len(data)) ELSE Zero

\* COALESCE(AVG(sales_amount), 0)
DbAvg(data) ==
    IF Len(data) > 0 THEN Quotient(SumAmounts(data), Len(data)) ELSE Zero

MaxOf(S) == CHOOSE x \in S : \A y \in S : y <= x
MinOf(S) == CHOOSE x \in S : \A y \in S : x <= y

\* _generate_insights_from_data: the rules in their order, cut to four.
\* raised: max(product_sales.values()) / total_sales divides by zero
InsightsFromData(data, total_sales, n_products, n_regions) ==
    LET n == Len(data)
        totals == { ProductSales(data)[i].total_sales : i \in DOMAIN ProductSales(data) }
        r1 == IF n_products = 1 THEN << "single_product" >>
              ELSE IF n_products > 10 THEN << "high_diversity" >> ELSE << >>
        r2 == IF total_sales > 1000 * n THEN << "high_value" >>
              ELSE IF total_sales < 50 * n THEN << "low_value" >> ELSE << >>
        r3 == IF n_regions = 1 THEN << "single_region" >>
              ELSE IF n_regions > 5 THEN << "multi_region" >> ELSE << >>
        share50 == \/ total_sales > 0 /\ MaxOf(totals) * 100 > 50 * total_sales
                   \/ total_sales < 0 /\ MaxOf(totals) * 100 < 50 * total_sales
        r4 == IF n > 0 /\ share50 THEN << "concentration" >> ELSE << >>
    IN  [raised |-> n > 0 /\ total_sales = 0,
         insights |-> Take(r1 \o r2 \o r3 \o r4, 4)]

NoDateRange == [present |-> FALSE, start |-> None, end |-> None]

EmptySummary ==
    [total_sales |-> 0, average_sales |-> Zero, record_count |-> 0,
     top_products |-> << >>, unique_products |-> 0, unique_regions |-> 0,
     date_range |-> NoDateRange, insights |-> << >>]

\* get_enhanced_summary, in-memory branch
SummaryMemory(table, user_id) ==
    LET data == ScopeData(table, user_id)
        total_sales == SumAmounts(data)
        products == { data[i].product : i \in DOMAIN data }
        regions == { data[i].region : i \in DOMAIN data }
        ins == InsightsFromData(data, total_sales, Cardinality(products), Cardinality(regions))
    IN  IF data = << >> THEN EmptySummary
        ELSE IF ins.raised THEN EmptySummary
        ELSE [total_sales |-> total_sales,
              average_sales |-> AvgSales(total_sales, data),
              record_count |-> Len(data),
              top_products |-> TopProductsMemory(data),
              unique_products |-> Cardinality(products),
              unique_regions |-> Cardinality(regions),
              date_range |-> NoDateRange,
              insights |-> ins.insights]

\* get_enhanced_summary, database branch
SummaryDb(table, user_id, tie) ==
    LET data == ScopeData(table, user_id)
        dates == { data[i].date : i \in DOMAIN data } \ {None}
    IN  [total_sales |-> SumAmounts(data),
         average_sales |-> DbAvg(data),
         record_count |-> Len(data),
         top_products |-> TopProductsDb(data, tie),
         unique_products |-> Cardinality({ data[i].product : i \in DOMAIN data }),
         unique_regions |-> Cardinality({ data[i].region : i \in DOMAIN data }),
         date_range |-> IF dates # {} THEN [present |-> TRUE, start |-> MinOf(dates), end |-> MaxOf(dates)]
                        ELSE NoDateRange,
         insights |-> << >>]

enhanced_summary(table, user_id, tie) ==
    IF use_memory THEN SummaryMemory(table, user_id) ELSE SummaryDb(table, user_id, tie)

get_enhanced_summary(user_id, tie) == enhanced_summary(sales_data, user_id, tie)

\* get_storage_info()["file_count"]
file_count == IF use_memory THEN Cardinality(file_hashes) ELSE Len(file_uploads)

\* --------------------------------------------------------- storage layer
\* Database.get_user
get_user(user_id) == { users[i] : i \in { j \in DOMAIN users : users[j].id = user_id } }

\* Database.check_file_duplicate: the in-memory set is not keyed by owner;
\* the query filters by owner only when an owner is given
check_file_duplicate(file_hash, user_id) ==
    IF use_memory THEN file_hash \in file_hashes
    ELSE IF user_id # None
         THEN \E i \in DOMAIN file_uploads :
                 file_uploads[i].file_hash = file_hash /\ file_uploads[i].user_id = user_id
         ELSE \E i \in DOMAIN file_uploads : file_uploads[i].file_hash = file_hash

\* Database.record_file_upload.  In the database file_hash is UNIQUE over
\* the whole table and a conflicting insert only rewrites record_count of
\* the existing record (whoever owns it) and returns that record's id; the
\* sequence value drawn for the attempted insert is lost.
record_file_upload(file_hash, filename, record_count, user_id) ==
    IF use_memory THEN
        LET file_id == Len(file_uploads) + 1
        IN  [file_uploads |-> Append(file_uploads,
                                 [id |-> file_id, user_id |-> user_id, file_hash |-> file_hash,
                                  filename |-> filename, record_count |-> record_count]),
             file_hashes |-> file_hashes \cup {file_hash},
             files_seq |-> id_seq.file_uploads,
             file_id |-> file_id]
    ELSE
        LET new_id == id_seq.file_uploads + 1
            hit == { i \in DOMAIN file_uploads : file_uploads[i].file_hash = file_hash }
        IN  IF hit # {}
            THEN LET i == CHOOSE j \in hit : TRUE
                 IN  [file_uploads |-> [file_uploads EXCEPT ![i].record_count = record_count],
                      file_hashes |-> file_hashes,
                      files_seq |-> new_id,
                      file_id |-> file_uploads[i].id]
            ELSE [file_uploads |-> Append(file_uploads,
                                     [id |-> new_id, user_id |-> user_id, file_hash |-> file_hash,
                                      filename |-> filename, record_count |-> record_count]),
                  file_hashes |-> file_hashes,
                  files_seq |-> new_id,
                  file_id |-> new_id]

\* DataProcessor._convert_to_sales_data: rows whose construction raises are skipped
convert_to_sales_data(rows) == SelectSeq(rows, LAMBDA r : r.typed)

\* Database.insert_sales_data_batch
insert_sales_data_batch(data_list, user_id, file_upload_id) ==
    LET base == IF use_memory THEN Len(sales_data) ELSE id_seq.sales_data
        new == [i \in DOMAIN data_list |->
                   [id |-> base + i, user_id |-> user_id, file_upload_id |-> file_upload_id,
                    product |-> data_list[i].product, sales_amount |-> data_list[i].sales_amount,
                    region |-> data_list[i].region, date |-> data_list[i].date]]
    IN  [sales_data |-> sales_data \o new,
         sales_seq |-> IF use_memory THEN id_seq.sales_data ELSE id_seq.sales_data + Len(data_list),
         stored_count |-> Len(data_list)]

\* _generate_comprehensive_insights divides the top product's total by
\* summary.total_sales whenever the summary has rows and top products
comprehensive_insights_raise(summary) ==
    summary.record_count > 0 /\ summary.top_products # << >> /\ summary.total_sales = 0

\* the UploadResponse of the except branch (its summary is the empty one);
\* detail is the text of the exception in "Processing failed: ..."
ErrorUpload(detail) ==
    [status |-> "error", rows_processed |-> 0, rows_stored |-> 0,
     file_hash |-> "", duplicate_upload |-> FALSE, detail |-> detail]

\* mutant of process_csv: the upload is recorded before the file is parsed
process_csv_RecordFirst(c, filename, user_id, tie) ==
    LET file_hash == calculate_file_hash(c)
        unchanged == [file_uploads |-> file_uploads, file_hashes |-> file_hashes,
                      sales_data |-> sales_data, files_seq |-> id_seq.file_uploads,
                      sales_seq |-> id_seq.sales_data]
        df == FileTable(c).rows
        rec == record_file_upload(file_hash, filename, Len(df), user_id)
    IN  IF check_file_duplicate(file_hash, user_id) THEN
            unchanged @@
            [response |-> [status |-> "success", rows_processed |-> 0, rows_stored |-> 0,
                           file_hash |-> file_hash, duplicate_upload |-> TRUE,
                           detail |-> "File already uploaded previously - skipping duplicate"]]
        ELSE IF ~FileTable(c).parsed THEN
            [file_uploads |-> rec.file_uploads, file_hashes |-> rec.file_hashes,
             sales_data |-> sales_data, files_seq |-> rec.files_seq,
             sales_seq |-> id_seq.sales_data,
             response |-> ErrorUpload("Could not parse CSV file with standard formats")]
        ELSE
            LET data_list == convert_to_sales_data(df)
                ins == insert_sales_data_batch(data_list, user_id, rec.file_id)
                summary == enhanced_summary(ins.sales_data, user_id, tie)
            IN  [file_uploads |-> rec.file_uploads, file_hashes |-> rec.file_hashes,
                 sales_data |-> ins.sales_data, files_seq |-> rec.files_seq,
                 sales_seq |-> ins.sales_seq,
                 response |-> IF comprehensive_insights_raise(summary)
                              THEN ErrorUpload("float division by zero")
                              ELSE [status |-> "success", rows_processed |-> Len(df),
                                    rows_stored |-> ins.stored_count,
                                    file_hash |-> file_hash, duplicate_upload |-> FALSE,
                                    detail |-> ""]]

\* DataProcessor.process_csv: the new store and the UploadResponse (without
\* its summary and insight list, which process_csv_summary gives)
process_csv(c, filename, user_id, tie) ==
    LET file_hash == calculate_file_hash(c)
        unchanged == [file_uploads |-> file_uploads, file_hashes |-> file_hashes,
                      sales_data |-> sales_data, files_seq |-> id_seq.file_uploads,
                      sales_seq |-> id_seq.sales_data]
    IN  IF check_file_duplicate(file_hash, user_id) THEN
            unchanged @@
            [response |-> [status |-> "success", rows_processed |-> 0, rows_stored |-> 0,
                           file_hash |-> file_hash, duplicate_upload |-> TRUE,
                           detail |-> "File already uploaded previously - skipping duplicate"]]
        ELSE IF ~FileTable(c).parsed THEN
            \* _read_and_clean_csv_dynamic raises ValueError
            unchanged @@ [response |-> ErrorUpload("Could not parse CSV file with standard formats")]
        ELSE
            LET df == FileTable(c).rows
                rec == record_file_upload(file_hash, filename, Len(df), user_id)
                data_list == convert_to_sales_data(df)
                ins == insert_sales_data_batch(data_list, user_id, rec.file_id)
                summary == enhanced_summary(ins.sales_data, user_id, tie)
            IN  [file_uploads |-> rec.file_uploads, file_hashes |-> rec.file_hashes,
                 sales_data |-> ins.sales_data, files_seq |-> rec.files_seq,
                 sales_seq |-> ins.sales_seq,
                 response |-> IF comprehensive_insights_raise(summary)
                              THEN ErrorUpload("float division by zero")
                              ELSE [status |-> "success", rows_processed |-> Len(df),
                                    rows_stored |-> ins.stored_count,
                                    file_hash |-> file_hash, duplicate_upload |-> FALSE,
                                    detail |-> ""]]

\* Database.clear_user_data.  The in-memory branch filters the three lists
\* (file_hashes is left alone).  The database branch issues count/delete
\* pairs one statement at a time, without a transaction: the delete from
\* file_uploads is rejected by sales_data.file_upload_id REFERENCES
\* file_uploads(id) while a remaining row still points at one of the
\* owner's file records, and the handler then reports zero counts with the
\* earlier deletes already applied.
clear_user_data(user_id) ==
    LET keep_sales == SelectSeq(sales_data, LAMBDA item : item.user_id # user_id)
        keep_articles == SelectSeq(articles, LAMBDA item : item.user_id # user_id)
        keep_files == SelectSeq(file_uploads, LAMBDA item : item.user_id # user_id)
        counts == [sales_data |-> Len(sales_data) - Len(keep_sales),
                   articles |-> Len(articles) - Len(keep_articles),
                   file_uploads |-> Len(file_uploads) - Len(keep_files)]
        owned_ids == { file_uploads[i].id : i \in { j \in DOMAIN file_uploads : file_uploads[j].user_id = user_id } }
        fk_violation == \E i \in DOMAIN keep_sales : keep_sales[i].file_upload_id \in owned_ids
    IN  IF use_memory \/ ~fk_violation
        THEN [sales_data |-> keep_sales, articles |-> keep_articles,
              file_uploads |-> keep_files, counts |-> counts]
        ELSE [sales_data |-> keep_sales, articles |-> keep_articles,
              file_uploads |-> file_uploads,
              counts |-> [sales_data |-> 0, articles |-> 0, file_uploads |-> 0]]

\* Database.insert_article: the Article it returns
insert_article(content, article_type, user_id) ==
    [id |-> IF use_memory THEN Len(articles) + 1 ELSE id_seq.articles + 1,
     user_id |-> user_id, article_type |-> article_type, content |-> content]

\* the stored record of an Article, dated date.today() / DEFAULT CURRENT_DATE
\* (the table keeps its text too; the model keeps the text in the response only)
ArticleRecord(article) ==
    [id |-> article.id, user_id |-> article.user_id, article_type |-> article.article_type,
     generated_date |-> today]

\* --------------------------------------------------------------- handlers
NoResponse == [op |-> "none"]

RoundIdle ==
    [pc |-> "idle", user_id |-> None, results |-> << >>, drafts |-> << >>,
     pending |-> {}, stored |-> << >>, response |-> NoResponse]

Init ==
    /\ use_memory \in BOOLEAN
    /\ users = << >>
    /\ sales_data = << >>
    /\ articles = << >>
    /\ file_uploads = << >>
    /\ file_hashes = {}
    /\ id_seq = [users |-> 0, file_uploads |-> 0, sales_data |-> 0, articles |-> 0]
    /\ current_user_id = None
    /\ resp = NoResponse
    /\ round = RoundIdle
    /\ uploaded = {}
    /\ clean = CleanIdle
    /\ today = 0
    /\ uploads = [request \in Requests |-> [pc |-> "idle"]]

\* POST /users (main.create_user over Database.create_user)
CreateUser(req) ==
    LET username == IF req.body THEN req.username ELSE "user_1"
        email == IF username = "alice" THEN "alice@example.com" ELSE "user_1@example.com"
        taken == \E i \in DOMAIN users : users[i].username = username \/ users[i].email = email
        new_id == IF use_memory THEN Len(users) + 1 ELSE id_seq.users + 1
    IN  /\ new_id <= MaxUsers
        /\ IF req.body /\ req.username = ""
           THEN \* UnboundLocalError: `time` is local and not yet bound
                /\ resp' = [op |-> "create_user", status |-> "error", user_id |-> None]
                /\ UNCHANGED << users, id_seq, current_user_id >>
           ELSE IF ~use_memory /\ taken
           THEN \* unique violation: Database.create_user returns None
                /\ id_seq' = [id_seq EXCEPT !.users = new_id]
                /\ resp' = [op |-> "create_user", status |-> "none", user_id |-> None]
                /\ UNCHANGED << users, current_user_id >>
           ELSE /\ users' = Append(users, [id |-> new_id, username |-> username, email |-> email])
                /\ id_seq' = IF use_memory THEN id_seq ELSE [id_seq EXCEPT !.users = new_id]
                /\ current_user_id' = new_id
                /\ resp' = [op |-> "create_user", status |-> "success", user_id |-> new_id]
        /\ UNCHANGED << clean, today, uploads, use_memory, sales_data, articles, file_uploads, file_hashes, round, uploaded >>

\* mutant of SetCurrentUser: the pointer is moved without looking the user up
SetCurrentUserUnchecked(user_id) ==
    /\ current_user_id' = user_id
    /\ resp' = [op |-> "set_current", status |-> "success", user_id |-> user_id]
    /\ UNCHANGED << clean, today, uploads, use_memory, users, sales_data, articles, file_uploads, file_hashes,
                    id_seq, round, uploaded >>

\* POST /users/{user_id}/set-current
SetCurrentUser(user_id) ==
    /\ IF get_user(user_id) = {}
       THEN /\ resp' = [op |-> "set_current", status |-> "not_found", user_id |-> user_id]
            /\ UNCHANGED current_user_id
       ELSE /\ current_user_id' = user_id
            /\ resp' = [op |-> "set_current", status |-> "success", user_id |-> user_id]
    /\ UNCHANGED << clean, today, uploads, use_memory, users, sales_data, articles, file_uploads, file_hashes,
                    id_seq, round, uploaded >>

\* the store part of an ingestion handler
Ingest(c, filename, tie) ==
    LET out == process_csv(c, filename, current_user_id, tie)
    IN  /\ out.files_seq <= MaxFileId
        /\ file_uploads' = out.file_uploads
        /\ file_hashes' = out.file_hashes
        /\ sales_data' = out.sales_data
        /\ id_seq' = [id_seq EXCEPT !.file_uploads = out.files_seq, !.sales_data = out.sales_seq]
        /\ resp' = [op |-> "upload", user_id |-> current_user_id, content |-> c] @@ out.response
        /\ uploaded' = IF out.response.status = "success" /\ ~out.response.duplicate_upload
                       THEN uploaded \cup { << current_user_id, c >> }
                       ELSE uploaded

\* POST /upload-data
UploadData(c, filename, tie) ==
    /\ Ingest(c, filename, tie)
    /\ UNCHANGED << clean, today, uploads, use_memory, users, articles, current_user_id, round >>

\* DELETE /clear-data
ClearData ==
    /\ IF current_user_id = None
       THEN /\ resp' = [op |-> "clear", status |-> "error", user_id |-> None]
            /\ UNCHANGED << sales_data, articles, file_uploads, uploaded >>
       ELSE LET out == clear_user_data(current_user_id)
            IN  /\ sales_data' = out.sales_data
                /\ articles' = out.articles
                /\ file_uploads' = out.file_uploads
                /\ resp' = [op |-> "clear", status |-> "success", user_id |-> current_user_id,
                            records_cleared |-> out.counts,
                            \* not in the body: the contents the owner had ingested
                            contents |-> { e[2] : e \in { u \in uploaded : u[1] = current_user_id } }]
                /\ uploaded' = { e \in uploaded : e[1] # current_user_id }
    /\ UNCHANGED << clean, today, uploads, use_memory, users, file_hashes, id_seq, current_user_id, round >>

\* GET /stats
GetStats(tie) ==
    /\ resp' = [op |-> "stats", user_id |-> current_user_id,
                summary |-> get_enhanced_summary(current_user_id, tie)]
    /\ UNCHANGED << clean, today, uploads, use_memory, users, sales_data, articles, file_uploads, file_hashes,
                    id_seq, current_user_id, round, uploaded >>

\* ------------------------------------------------------------ draft round
NoArticle == [id |-> None, user_id |-> None, article_type |-> "", content |-> ""]

\* AIService._generate_content: an exception of the generation call is
\* caught and the fallback sentence is returned as the content
generate_content(agent_type, outcome) ==
    [raised |-> FALSE,
     content |-> IF outcome = "ok" THEN "text" ELSE "fallback"]

\* AIService._generate_single_article: re-raises what _generate_content raises;
\* call remembers what the external generation call did
generate_single_article(agent_type, outcome) ==
    LET g == generate_content(agent_type, outcome)
    IN  [agent_type |-> agent_type, content |-> g.content, raised |-> g.raised,
         call |-> outcome]

\* a new round may start when none is in flight and ids for its drafts remain
RoundFree ==
    /\ round.pc = "idle"
    /\ (IF use_memory THEN Len(articles) ELSE id_seq.articles) + Len(agents) <= MaxArticles

NewRound == [RoundIdle EXCEPT !.pc = "CHECK_DATA", !.user_id = current_user_id]

\* POST /generate-articles without a file
GenerateArticles ==
    /\ RoundFree
    /\ round' = NewRound
    /\ UNCHANGED << clean, today, uploads, use_memory, users, sales_data, articles, file_uploads, file_hashes,
                    id_seq, current_user_id, resp, uploaded >>

\* POST /generate-articles with a file: the file is ingested first and a
\* failed ingestion ends the request
GenerateArticlesWithFile(c, filename, tie) ==
    /\ RoundFree
    /\ Ingest(c, filename, tie)
    /\ round' = IF process_csv(c, filename, current_user_id, tie).response.status = "error"
                THEN round ELSE NewRound
    /\ UNCHANGED << clean, today, uploads, use_memory, users, articles, current_user_id >>

\* mutant of CheckData: the round is refused only when both counts are zero
CheckDataBothZero(tie) ==
    /\ round.pc = "CHECK_DATA"
    /\ LET summary == get_enhanced_summary(round.user_id, tie)
       IN  round' = IF file_count = 0 /\ summary.record_count = 0
                    THEN [round EXCEPT !.pc = "NO_DATA",
                                       !.response = [op |-> "generate", status |-> "error",
                                                     articles_generated |-> 0, articles |-> << >>]]
                    ELSE [round EXCEPT !.pc = "GENERATING"]
    /\ UNCHANGED << clean, today, uploads, use_memory, users, sales_data, articles, file_uploads, file_hashes,
                    id_seq, current_user_id, resp, uploaded >>

\* generate_articles_with_check up to its first branch
CheckData(tie) ==
    /\ round.pc = "CHECK_DATA"
    /\ LET summary == get_enhanced_summary(round.user_id, tie)
       IN  round' = IF file_count = 0 \/ summary.record_count = 0
                    THEN [round EXCEPT !.pc = "NO_DATA",
                                       !.response = [op |-> "generate", status |-> "error",
                                                     articles_generated |-> 0, articles |-> << >>]]
                    ELSE [round EXCEPT !.pc = "GENERATING"]
    /\ UNCHANGED << clean, today, uploads, use_memory, users, sales_data, articles, file_uploads, file_hashes,
                    id_seq, current_user_id, resp, uploaded >>

\* mutant of GenerateStep: the round goes on as soon as one persona has settled
GenerateStepFirstCompleted(outcome) ==
    /\ round.pc = "GENERATING"
    /\ LET i == Len(round.results) + 1
           results == Append(round.results, generate_single_article(agents[i], outcome))
           drafts == SelectSeq(results, LAMBDA r : ~r.raised)
       IN  round' = [round EXCEPT !.results = results, !.pc = "STORING",
                                  !.drafts = drafts,
                                  !.pending = DOMAIN drafts,
                                  !.stored = [k \in DOMAIN drafts |-> NoArticle]]
    /\ UNCHANGED << clean, today, uploads, use_memory, users, sales_data, articles, file_uploads, file_hashes,
                    id_seq, current_user_id, resp, uploaded >>

\* _generate_articles_concurrent: the persona tasks run one after the other
\* in dict order (none of them suspends); when the last has settled the
\* results that are exceptions are dropped and the storing tasks are created
GenerateStep(outcome) ==
    /\ round.pc = "GENERATING"
    /\ LET i == Len(round.results) + 1
           results == Append(round.results, generate_single_article(agents[i], outcome))
           drafts == SelectSeq(results, LAMBDA r : ~r.raised)
       IN  round' = IF i < Len(agents)
                    THEN [round EXCEPT !.results = results]
                    ELSE IF drafts = << >>
                    THEN [round EXCEPT !.results = results, !.pc = "DONE",
                                       !.response = [op |-> "generate", status |-> "success",
                                                     articles_generated |-> 0, articles |-> << >>]]
                    ELSE [round EXCEPT !.results = results, !.pc = "STORING",
                                       !.drafts = drafts,
                                       !.pending = DOMAIN drafts,
                                       !.stored = [k \in DOMAIN drafts |-> NoArticle]]
    /\ UNCHANGED << clean, today, uploads, use_memory, users, sales_data, articles, file_uploads, file_hashes,
                    id_seq, current_user_id, resp, uploaded >>

\* _store_articles_concurrent: one insert_article per draft; in memory the
\* tasks run in list order, against the database their order is not fixed
\* (the model lets the inserts complete in list order or in reverse list order)
StoreStep(k) ==
    /\ round.pc = "STORING"
    /\ k \in round.pending
    /\ IF use_memory \/ 1 \notin round.pending THEN k = MinOf(round.pending)
       ELSE IF round.pending = DOMAIN round.drafts
       THEN k \in {MinOf(round.pending), MaxOf(round.pending)}
       ELSE k = MaxOf(round.pending)
    /\ LET article == insert_article(round.drafts[k].content, round.drafts[k].agent_type,
                                     round.user_id)
           stored == [round.stored EXCEPT ![k] = article]
           kept == SelectSeq(stored, LAMBDA a : a # NoArticle)
       IN  /\ articles' = Append(articles, ArticleRecord(article))
           /\ id_seq' = IF use_memory THEN id_seq ELSE [id_seq EXCEPT !.articles = article.id]
           /\ round' = IF round.pending = {k}
                       THEN [round EXCEPT !.pending = {}, !.stored = stored, !.pc = "DONE",
                                          !.response = [op |-> "generate", status |-> "success",
                                                        articles_generated |-> Len(kept),
                                                        articles |-> kept]]
                       ELSE [round EXCEPT !.pending = round.pending \ {k}, !.stored = stored]
    /\ UNCHANGED << clean, today, uploads, use_memory, users, sales_data, file_uploads, file_hashes,
                    current_user_id, resp, uploaded >>

\* the handler returns its GenerationResponse and its frame is gone
RoundReturn ==
    /\ round.pc \in {"NO_DATA", "DONE"}
    /\ round' = RoundIdle
    /\ UNCHANGED << clean, today, uploads, use_memory, users, sales_data, articles, file_uploads, file_hashes,
                    id_seq, current_user_id, resp, uploaded >>

\* ====================================================== cleaning pipeline
\* Text is modelled as the sequence of its characters, so that the string
\* operations of the pipeline (lower, strip, title, substring tests, number
\* and date parsing) are computed, not assumed.
LowerCase == <<"a","b","c","d","e","f","g","h","i","j","k","l","m","n","o","p","q","r","s","t","u","v","w","x","y","z">>
UpperCase == <<"A","B","C","D","E","F","G","H","I","J","K","L","M","N","O","P","Q","R","S","T","U","V","W","X","Y","Z">>
Digits == <<"0","1","2","3","4","5","6","7","8","9">>

IsDigit(ch) == \E i \in DOMAIN Digits : Digits[i] = ch

\* str.lower / str.upper on one character
Lower(ch) ==
    IF \E i \in DOMAIN UpperCase : UpperCase[i] = ch
    THEN LowerCase[CHOOSE i \in DOMAIN UpperCase : UpperCase[i] = ch] ELSE ch
Upper(ch) ==
    IF \E i \in DOMAIN LowerCase : LowerCase[i] = ch
    THEN UpperCase[CHOOSE i \in DOMAIN LowerCase : LowerCase[i] = ch] ELSE ch

StrLower(s) == [i \in DOMAIN s |-> Lower(s[i])]

\* str.strip(): leading and trailing blanks removed
StrStrip(s) ==
    LET keep == { i \in DOMAIN s : s[i] # " " }
    IN  IF keep = {} THEN << >>
        ELSE SubSeq(s, CHOOSE i \in keep : \A j \in keep : i <= j,
                       CHOOSE i \in keep : \A j \in keep : j <= i)

\* str.title(): a letter is upper-cased when it starts the text or follows
\* a character that is not a letter, and lower-cased otherwise
StrTitle(s) ==
    [i \in DOMAIN s |-> IF i = 1 \/ Lower(s[i - 1]) = Upper(s[i - 1]) THEN Upper(s[i]) ELSE Lower(s[i])]

\* needle in hay
Contains(hay, needle) ==
    \E i \in 0..(Len(hay) - Len(needle)) : SubSeq(hay, i + 1, i + Len(needle)) = needle

\* ------------------------------------------------------ exact arithmetic
\* float values are kept as reduced fractions (see Quotient)
RLess(a, b) == a.num * b.den < b.num * a.den
RAdd(a, b) == Quotient(a.num * b.den + b.num * a.den, a.den * b.den)
RScale(a, n, d) == Quotient(a.num * n, a.den * d)

\* the value of a run of decimal digits
DigitsVal(ds) ==
    LET digit(ch) == (CHOOSE i \in DOMAIN Digits : Digits[i] = ch) - 1
        v[i \in 0..Len(ds)] == IF i = 0 THEN 0 ELSE 10 * v[i - 1] + digit(ds[i])
    IN  v[Len(ds)]

\* float(text) as pd.to_numeric applies it to one cell: an optional sign,
\* digits and at most one decimal point; anything else does not parse
ParseNumber(s) ==
    LET neg == s # << >> /\ s[1] = "-"
        body == IF neg THEN Tail(s) ELSE s
        dots == { i \in DOMAIN body : body[i] = "." }
        ds == SelectSeq(body, IsDigit)
        ok == /\ Cardinality(dots) <= 1
              /\ ds # << >>
              /\ \A i \in DOMAIN body : IsDigit(body[i]) \/ body[i] = "."
        frac == IF dots = {} THEN 0 ELSE Len(body) - (CHOOSE i \in dots : TRUE)
        pow10[i \in 0..frac] == IF i = 0 THEN 1 ELSE 10 * pow10[i - 1]
    IN  IF ok THEN [ok |-> TRUE, value |-> Quotient((IF neg THEN -1 ELSE 1) * DigitsVal(ds), pow10[frac])]
        ELSE [ok |-> FALSE, value |-> Zero]

\* ------------------------------------------------------------ data frame
\* A cell of the data frame: text, a number, a date, or the missing value
\* (NaN / NaT).  All four kinds have the same fields, so that rows can be
\* compared as DataFrame.duplicated compares them.
StrV(s) == [k |-> "str", s |-> s, num |-> 0, den |-> 1]
NumV(q) == [k |-> "num", s |-> << >>, num |-> q.num, den |-> q.den]
DateV(y, m, d) == [k |-> "date", s |-> << >>, num |-> y * 10000 + m * 100 + d, den |-> 1]
NaN == [k |-> "nan", s |-> << >>, num |-> 0, den |-> 1]

ValueOf(v) == [num |-> v.num, den |-> v.den]

\* the canonical field names
DATE == <<"d","a","t","e">>
SALES_AMOUNT == <<"s","a","l","e","s","_","a","m","o","u","n","t">>
PRODUCT == <<"p","r","o","d","u","c","t">>
CATEGORY == <<"c","a","t","e","g","o","r","y">>
QUANTITY == <<"q","u","a","n","t","i","t","y">>
REGION == <<"r","e","g","i","o","n">>
UNKNOWN == <<"U","n","k","n","o","w","n">>

\* DataProcessor.column_mappings, in dict order
column_mappings ==
    << [target |-> <<"d","a","t","e">>,
        names |-> << <<"d","a","t","e">>, <<"o","r","d","e","r","_","d","a","t","e">>, <<"t","r","a","n","s","a","c","t","i","o","n","_","d","a","t","e">>, <<"s","a","l","e","_","d","a","t","e">>, <<"c","r","e","a","t","e","d","_","d","a","t","e">>, <<"t","i","m","e","s","t","a","m","p">> >>],
       [target |-> <<"s","a","l","e","s","_","a","m","o","u","n","t">>,
        names |-> << <<"s","a","l","e","s","_","a","m","o","u","n","t">>, <<"r","e","v","e","n","u","e">>, <<"a","m","o","u","n","t">>, <<"t","o","t","a","l","_","s","a","l","e","s">>, <<"v","a","l","u","e">>, <<"p","r","i","c","e">>, <<"c","o","s","t">>, <<"s","a","l","e","s">>, <<"t","o","t","a","l","_","a","m","o","u","n","t">> >>],
       [target |-> <<"p","r","o","d","u","c","t">>,
        names |-> << <<"p","r","o","d","u","c","t">>, <<"i","t","e","m">>, <<"s","k","u">>, <<"p","r","o","d","u","c","t","_","n","a","m","e">>, <<"i","t","e","m","_","n","a","m","e">>, <<"p","r","o","d","u","c","t","_","i","d">>, <<"n","a","m","e">> >>],
       [target |-> <<"c","a","t","e","g","o","r","y">>,
        names |-> << <<"c","a","t","e","g","o","r","y">>, <<"p","r","o","d","u","c","t","_","c","a","t","e","g","o","r","y">>, <<"t","y","p","e">>, <<"g","r","o","u","p">>, <<"s","e","g","m","e","n","t">>, <<"c","l","a","s","s">> >>],
       [target |-> <<"q","u","a","n","t","i","t","y">>,
        names |-> << <<"q","u","a","n","t","i","t","y">>, <<"q","t","y">>, <<"u","n","i","t","s">>, <<"o","r","d","e","r","s">>, <<"c","o","u","n","t">>, <<"v","o","l","u","m","e">>, <<"i","t","e","m","s">> >>],
       [target |-> <<"r","e","g","i","o","n">>,
        names |-> << <<"r","e","g","i","o","n">>, <<"l","o","c","a","t","i","o","n">>, <<"m","a","r","k","e","t">>, <<"a","r","e","a">>, <<"t","e","r","r","i","t","o","r","y">>, <<"c","o","u","n","t","r","y">>, <<"s","t","a","t","e">>, <<"c","i","t","y">> >>] >>

\* the texts pd.read_csv reads as missing; "None" joined them in pandas 2.0
\* and is left out here: as text it ends where NaN ends in every column the
\* pipeline converts
NaValues ==
    { << >>,
      <<"#","N","/","A">>,
      <<"#","N","/","A"," ","N","/","A">>,
      <<"#","N","A">>,
      <<"-","1",".","#","I","N","D">>,
      <<"-","1",".","#","Q","N","A","N">>,
      <<"-","N","a","N">>,
      <<"-","n","a","n">>,
      <<"1",".","#","I","N","D">>,
      <<"1",".","#","Q","N","A","N">>,
      <<"<","N","A",">">>,
      <<"N","/","A">>,
      <<"N","A">>,
      <<"N","U","L","L">>,
      <<"N","a","N">>,
      <<"n","/","a">>,
      <<"n","a","n">>,
      <<"n","u","l","l">> }

\* one cell as pd.read_csv hands it over (dtype object)
ReadCell(cell) == IF cell \in NaValues THEN NaN ELSE StrV(cell)

\* df.columns.str.lower().str.strip().str.replace(" ", "_")
\*   .str.replace("[^a-z0-9_]", "", regex=True)
CleanHeader(h) ==
    LET t == StrStrip(StrLower(h))
        u == [i \in DOMAIN t |-> IF t[i] = " " THEN "_" ELSE t[i]]
    IN  SelectSeq(u, LAMBDA ch : Upper(ch) # ch \/ IsDigit(ch) \/ ch = "_")

\* position of the first column of that name, 0 when there is none
ColIndex(columns, name) ==
    IF \E i \in DOMAIN columns : columns[i] = name
    THEN CHOOSE i \in DOMAIN columns : columns[i] = name /\ \A j \in 1..(i - 1) : columns[j] # name
    ELSE 0

HasCol(df, name) == ColIndex(df.columns, name) # 0

\* df[name] as the list of its cells
Column(df, name) == [r \in DOMAIN df.data |-> df.data[r][ColIndex(df.columns, name)]]

\* df[name] = cells: an existing column is overwritten in place, a new one
\* is appended
SetColumn(df, name, cells) ==
    LET c == ColIndex(df.columns, name)
    IN  IF c # 0
        THEN [df EXCEPT !.data = [r \in DOMAIN df.data |-> [df.data[r] EXCEPT ![c] = cells[r]]]]
        ELSE [columns |-> Append(df.columns, name),
              data |-> [r \in DOMAIN df.data |-> Append(df.data[r], cells[r])]]

\* pd.read_csv of a file that some encoding/separator pair splits into the
\* given header cells and rows
read_csv(raw) ==
    [columns |-> raw.headers,
     data |-> [r \in DOMAIN raw.rows |-> [c \in DOMAIN raw.headers |-> ReadCell(raw.rows[r][c])]]]

\* the first column, in column order, whose name contains one of the names
\* of the k-th canonical field; 0 when no column does
FirstMatch(columns, k) ==
    LET hit(i) == \E n \in DOMAIN column_mappings[k].names :
                      Contains(columns[i], column_mappings[k].names[n])
    IN  IF \E i \in DOMAIN columns : hit(i)
        THEN CHOOSE i \in DOMAIN columns : hit(i) /\ \A j \in 1..(i - 1) : ~hit(j)
        ELSE 0

\* the mapped_columns dict after the loop over column_mappings.items():
\* column position -> index of its canonical field, 0 when unmapped.  The
\* assignment mapped_columns[col] = target_col overwrites an earlier entry
\* of the same column.
mapped_columns(columns) ==
    LET m[k \in 0..Len(column_mappings)] ==
            IF k = 0 THEN [i \in DOMAIN columns |-> 0]
            ELSE IF FirstMatch(columns, k) = 0 THEN m[k - 1]
            ELSE [m[k - 1] EXCEPT ![FirstMatch(columns, k)] = k]
    IN  m[Len(column_mappings)]

\* df.rename(columns=mapped_columns)
rename(df, mapped) ==
    [df EXCEPT !.columns = [i \in DOMAIN df.columns |->
                               IF mapped[i] = 0 THEN df.columns[i]
                               ELSE column_mappings[mapped[i]].target]]

\* ------------------------------------------------------------- date parsing
\* date_formats of _parse_dates_smart, in list order: the order of the three
\* fields and the separator between them ("" for %Y%m%d)
date_formats ==
    << [order |-> <<"Y", "m", "d">>, sep |-> "-"],
       [order |-> <<"m", "d", "Y">>, sep |-> "/"],
       [order |-> <<"d", "m", "Y">>, sep |-> "/"],
       [order |-> <<"Y", "m", "d">>, sep |-> "/"],
       [order |-> <<"m", "d", "Y">>, sep |-> "-"],
       [order |-> <<"d", "m", "Y">>, sep |-> "-"],
       [order |-> <<"Y", "m", "d">>, sep |-> ""] >>

\* the releases of pandas differ in what a format does to a cell that is
\* already a date, and in how the parser without a format reads text
PandasVersions == {1, 2}

\* datetime.strptime(text, fmt).date(), NaN (NaT) when the text does not
\* match.  The text is cut at the separator (or, without one, into 4 + 2 + 2
\* characters); %Y takes four digits, %m and %d one or two.
ParseDate(s, fmt) ==
    LET cuts == { i \in DOMAIN s : s[i] = fmt.sep }
        p1 == CHOOSE i \in cuts : \A j \in cuts : i <= j
        p2 == CHOOSE i \in cuts : \A j \in cuts : j <= i
        f == IF fmt.sep = ""
             THEN IF Len(s) = 8
                  THEN [ok |-> TRUE, parts |-> << SubSeq(s, 1, 4), SubSeq(s, 5, 6), SubSeq(s, 7, 8) >>]
                  ELSE [ok |-> FALSE, parts |-> << >>]
             ELSE IF Cardinality(cuts) = 2
                  THEN [ok |-> TRUE,
                        parts |-> << SubSeq(s, 1, p1 - 1), SubSeq(s, p1 + 1, p2 - 1),
                                     SubSeq(s, p2 + 1, Len(s)) >>]
                  ELSE [ok |-> FALSE, parts |-> << >>]
        part(name) == f.parts[CHOOSE i \in 1..3 : fmt.order[i] = name]
        wellformed == /\ f.ok
                      /\ \A i \in 1..3 : f.parts[i] # << >> /\ \A j \in DOMAIN f.parts[i] : IsDigit(f.parts[i][j])
                      /\ Len(part("Y")) = 4
                      /\ Len(part("m")) <= 2
                      /\ Len(part("d")) <= 2
        y == DigitsVal(part("Y"))
        m == DigitsVal(part("m"))
        d == DigitsVal(part("d"))
        leap == y % 4 = 0 /\ (y % 100 # 0 \/ y % 400 = 0)
        days == IF m = 2 THEN (IF leap THEN 29 ELSE 28)
                ELSE IF m \in {4, 6, 9, 11} THEN 30 ELSE 31
    IN  IF wellformed /\ y >= 1 /\ m \in 1..12 /\ d \in 1..days
        THEN DateV(y, m, d) ELSE NaN

\* pd.to_datetime(cell, format=fmt, errors="coerce").date() for one cell.
\* A cell that already is a date passes through in pandas 2; pandas 1
\* matches its str() form, YYYY-MM-DD, against the format.
ToDate(v, k, pandas) ==
    IF v.k = "str" THEN ParseDate(v.s, date_formats[k])
    ELSE IF v.k = "date" THEN (IF pandas = 2 \/ k = 1 THEN v ELSE NaN)
    ELSE NaN

\* the formats that read a text, in list order
ReadingFormats(s) == { k \in DOMAIN date_formats : ParseDate(s, date_formats[k]) # NaN }

\* pd.to_datetime(cells, errors="coerce").dt.date, the parser without a
\* format.  Dates pass through.  Text is read cell by cell in pandas 1; in
\* pandas 2 the format is guessed from the first text cell and applied to all.
GenericDates(cells, pandas) ==
    LET texts == { r \in DOMAIN cells : cells[r].k = "str" }
        first == CHOOSE r \in texts : \A q \in texts : r <= q
        least(S) == CHOOSE k \in S : \A j \in S : k <= j
        guess == IF texts # {} /\ ReadingFormats(cells[first].s) # {}
                 THEN least(ReadingFormats(cells[first].s)) ELSE 0
        one(v) == IF v.k = "date" THEN v
                  ELSE IF v.k # "str" THEN NaN
                  ELSE IF pandas = 1
                       THEN (IF ReadingFormats(v.s) = {} THEN NaN
                             ELSE ParseDate(v.s, date_formats[least(ReadingFormats(v.s))]))
                       ELSE (IF guess = 0 THEN NaN ELSE ParseDate(v.s, date_formats[guess]))
    IN  [r \in DOMAIN cells |-> one(cells[r])]

NotNa(cells) == Cardinality({ r \in DOMAIN cells : cells[r] # NaN })

\* _parse_dates_smart.  Every column whose name contains "date" gets eight
\* attempts (the seven formats, then the parser without a format); each
\* attempt reads df[col] as it is then and assigns the result to df["date"],
\* so for the column named "date" itself every attempt after the first reads
\* what the attempt before it has left.
parse_dates_smart(df, pandas) ==
    LET cols == SelectSeq(df.columns, LAMBDA c : Contains(c, DATE))
        nf == Len(date_formats)
        attempt(prev, a) ==
            LET col == cols[((a - 1) \div (nf + 1)) + 1]
                k == ((a - 1) % (nf + 1)) + 1
            IN  CHOOSE next \in
                  { [df |-> SetColumn(prev.df, DATE, res),
                     date_parsed |-> NotNa(res) * 10 > Len(df.data) * (IF k <= nf THEN 8 ELSE 5)] :
                    res \in { IF k <= nf THEN [r \in DOMAIN src |-> ToDate(src[r], k, pandas)]
                              ELSE GenericDates(src, pandas) :
                              src \in { Column(prev.df, col) } } } : TRUE
        st[a \in 0..((nf + 1) * Len(cols))] ==
            IF a = 0 THEN [df |-> df, date_parsed |-> FALSE]
            ELSE CHOOSE next \in { IF prev.date_parsed THEN prev ELSE attempt(prev, a) :
                                    prev \in { st[a - 1] } } : TRUE
    IN  st[(nf + 1) * Len(cols)]

\* -------------------------------------------------------- numeric columns
\* Series.astype(str) on a cell: text stays, NaN becomes "nan"
AsStr(v) == IF v.k = "str" THEN v.s ELSE <<"n","a","n">>

\* pd.to_numeric(cell, errors="coerce")
ToNumeric(s) == CHOOSE v \in { IF p.ok THEN NumV(p.value) ELSE NaN : p \in { ParseNumber(s) } } : TRUE

\* Series.quantile(n / d): linear interpolation between the two order
\* statistics around position (count - 1) * n / d, NaN skipped
Quantile(cells, n, d) ==
    LET ascending(vals) ==
            [k \in DOMAIN vals |->
                ValueOf(vals[CHOOSE i \in DOMAIN vals :
                    k = 1 + Cardinality({ j \in DOMAIN vals :
                               \/ RLess(ValueOf(vals[j]), ValueOf(vals[i]))
                               \/ ValueOf(vals[j]) = ValueOf(vals[i]) /\ j < i })])]
        interpolate(xs, lo, rest) ==
            RAdd(xs[lo], RScale(RAdd(xs[IF lo < Len(xs) THEN lo + 1 ELSE lo], RScale(xs[lo], -1, 1)), rest, d))
    IN  CHOOSE q \in { interpolate(xs, (((Len(xs) - 1) * n) \div d) + 1, ((Len(xs) - 1) * n) % d) :
                       xs \in { ascending(vals) : vals \in { SelectSeq(cells, LAMBDA v : v # NaN) } } } : TRUE

\* float -> int of astype(int): the fraction is cut off
Truncate(q) == IF q.num >= 0 THEN q.num \div q.den ELSE -((-q.num) \div q.den)

\* _convert_numerics_smart: the frame after the sales_amount part and the
\* quantity part, and the conversions dict (a key that the code does not set
\* is 0 here); parsed keeps the amounts as they stood before the capping
convert_numerics_smart(df) ==
    LET to_amount(v) == ToNumeric(SelectSeq(AsStr(v), LAMBDA ch : ch \notin {",", "$"}))
        capping(parsed, q99) ==
            LET over == { r \in DOMAIN parsed :
                            parsed[r] # NaN /\ RLess(RScale(q99, 3, 1), ValueOf(parsed[r])) }
            IN  [col |-> [r \in DOMAIN parsed |-> IF r \in over THEN NumV(q99) ELSE parsed[r]],
                 outliers |-> Cardinality(over)]
        amount(d, raw, parsed) ==
            CHOOSE a \in
              { [df |-> SetColumn(d, SALES_AMOUNT,
                                  [r \in DOMAIN parsed |-> IF c.col[r] = NaN THEN NumV(Zero) ELSE c.col[r]]),
                 parsed |-> parsed,
                 sales_amount_outliers_capped |-> c.outliers,
                 sales_amount_na_filled |-> 0 - Cardinality({ r \in DOMAIN raw : raw[r] = NaN })] :
                c \in { IF NotNa(parsed) > 0
                        THEN CHOOSE x \in { capping(parsed, q99) : q99 \in { Quantile(parsed, 99, 100) } } : TRUE
                        ELSE [col |-> parsed, outliers |-> 0] } } : TRUE
        sales_amount(d) ==
            IF HasCol(d, SALES_AMOUNT)
            THEN CHOOSE a \in { amount(d, raw, [r \in DOMAIN raw |-> to_amount(raw[r])]) :
                                raw \in { Column(d, SALES_AMOUNT) } } : TRUE
            ELSE [df |-> d, parsed |-> << >>, sales_amount_outliers_capped |-> 0,
                  sales_amount_na_filled |-> 0]
        to_int(v) ==
            IF v.k = "str"
            THEN CHOOSE x \in { IF num = NaN THEN 1 ELSE Truncate(ValueOf(num)) : num \in { ToNumeric(v.s) } } : TRUE
            ELSE 1
        conversions(a, defaulted) ==
            [sales_amount_outliers_capped |-> a.sales_amount_outliers_capped,
             sales_amount_na_filled |-> a.sales_amount_na_filled,
             quantity_defaulted_to_1 |-> defaulted]
        quantity(a) ==
            IF HasCol(a.df, QUANTITY)
            THEN CHOOSE q \in
                   { [df |-> SetColumn(a.df, QUANTITY, ints),
                      parsed |-> a.parsed,
                      conversions |-> conversions(a, Cardinality({ r \in DOMAIN ints : ints[r] = NumV(Quotient(1, 1)) }))] :
                     ints \in { [r \in DOMAIN qraw |-> NumV(Quotient(to_int(qraw[r]), 1))] :
                                qraw \in { Column(a.df, QUANTITY) } } } : TRUE
            ELSE [df |-> a.df, parsed |-> a.parsed, conversions |-> conversions(a, 0)]
    IN  CHOOSE out \in { quantity(a) : a \in { sales_amount(df) } } : TRUE

\* ---------------------------------------------------- categorical columns
categorical_columns == << PRODUCT, CATEGORY, REGION >>
null_patterns == << <<"n","a","n">>, <<"n","u","l","l">>, <<"n","o","n","e">>, << >>, <<"n","/","a">>, <<"n","a">> >>

\* the same without the strip
Categorical_NoStrip(v) ==
    LET t == StrTitle(AsStr(v))
    IN  IF \E i \in DOMAIN null_patterns : StrTitle(null_patterns[i]) = t
        THEN StrV(UNKNOWN) ELSE StrV(t)

\* one cell through astype(str).str.strip().str.title() and the replace of
\* the title-cased null patterns
Categorical(v) ==
    LET t == StrTitle(StrStrip(AsStr(v)))
    IN  IF \E i \in DOMAIN null_patterns : StrTitle(null_patterns[i]) = t
        THEN StrV(UNKNOWN) ELSE StrV(t)

\* _process_categorical_smart
process_categorical_smart(df) ==
    LET step(prev, name) ==
            IF ~HasCol(prev, name) THEN prev
            ELSE LET col == Column(prev, name)
                 IN  SetColumn(prev, name, [r \in DOMAIN col |-> Categorical(col[r])])
        st[k \in 0..Len(categorical_columns)] ==
            IF k = 0 THEN df
            ELSE CHOOSE next \in { step(prev, categorical_columns[k]) : prev \in { st[k - 1] } } : TRUE
    IN  st[Len(categorical_columns)]

\* --------------------------------------------------------- quality filters
Cell(df, row, name) == row[ColIndex(df.columns, name)]

\* the rows _apply_quality_filters marks as completely invalid
CompletelyInvalid(df, row) ==
    /\ Cell(df, row, PRODUCT).k = "str"
    /\ Cell(df, row, PRODUCT).s \in { <<"U","n","k","n","o","w","n">>, << >>, <<"N","a","n">>, <<"N","o","n","e">> }
    /\ \/ Cell(df, row, SALES_AMOUNT) = NaN
       \/ /\ Cell(df, row, SALES_AMOUNT).k = "num"
          /\ Cell(df, row, SALES_AMOUNT).num = 0

\* DataFrame.duplicated(): the rows equal to an earlier row in every column
Duplicated(data) == { i \in DOMAIN data : \E j \in 1..(i - 1) : data[j] = data[i] }

Keep(data, drop) ==
    LET kept == { i \in DOMAIN data : i \notin drop }
        place(i) == Cardinality({ j \in kept : j <= i })
    IN  [k \in 1..Cardinality(kept) |-> data[CHOOSE i \in kept : place(i) = k]]

\* _apply_quality_filters: the filters work on the function's own df, which
\* is rebound at each step; the caller's frame is not touched, and the
\* function returns only the counts (a key that is not set is 0 here)
apply_quality_filters(df) ==
    LET invalid == IF HasCol(df, PRODUCT) /\ HasCol(df, SALES_AMOUNT)
                   THEN { i \in DOMAIN df.data : CompletelyInvalid(df, df.data[i]) }
                   ELSE {}
        extreme(d2, amounts) ==
            IF HasCol(df, SALES_AMOUNT) /\ Len(d2) > 10
            THEN CHOOSE S \in { { i \in DOMAIN d2 : RLess(limit, ValueOf(amounts[i])) } :
                                limit \in { RScale(Quantile(amounts, 999, 1000), 5, 1) } } : TRUE
            ELSE {}
        result(n1, n2, n3, d3) ==
            [filtered |-> [df EXCEPT !.data = d3],
             filters_applied |-> [invalid_product_zero_sales |-> n1,
                                  duplicates_removed |-> n2,
                                  extreme_outliers_removed |-> n3,
                                  total_rows_filtered |-> Len(df.data) - Len(d3)]]
        third(n1, n2, d2, out) == result(n1, n2, Cardinality(out), Keep(d2, out))
        second(n1, d1, dups) ==
            CHOOSE r \in { third(n1, Cardinality(dups), d2, extreme(d2, Column([df EXCEPT !.data = d2], SALES_AMOUNT))) :
                           d2 \in { Keep(d1, dups) } } : TRUE
        first(bad) ==
            CHOOSE r \in { second(Cardinality(bad), d1, IF Len(d1) > 1 THEN Duplicated(d1) ELSE {}) :
                           d1 \in { Keep(df.data, bad) } } : TRUE
    IN  CHOOSE r \in { first(bad) : bad \in { invalid } } : TRUE

\* ------------------------------------------------------------ typed rows
NoDate == [k |-> "none", s |-> << >>, num |-> 0, den |-> 1]

\* what SalesData(date = NaT) does depends on the build of the validation
\* library: it rejects the value, or it reads the calendar fields that NaT
\* carries as a datetime subclass (year 1, month 1, day 1)
NatOutcomes == {"rejected", "first_day"}

\* the same with an empty text for an absent category column
SalesRow_EmptyCategory(df, row, nat) ==
    LET get(name, default) == IF HasCol(df, name) THEN Cell(df, row, name) ELSE default
        date == get(DATE, NoDate)
    IN  [ok |-> date # NaN \/ nat = "first_day",
         date |-> IF date = NaN THEN DateV(1, 1, 1) ELSE date,
         product |-> get(PRODUCT, StrV(UNKNOWN)).s,
         category |-> get(CATEGORY, StrV(<< >>)).s,
         sales_amount |-> ValueOf(get(SALES_AMOUNT, NumV(Zero))),
         quantity |-> ValueOf(get(QUANTITY, NumV(Quotient(1, 1)))).num,
         region |-> get(REGION, StrV(UNKNOWN)).s]

\* one row of _convert_to_sales_data: row.get with its default for a column
\* the frame does not have
SalesRow(df, row, nat) ==
    LET get(name, default) == IF HasCol(df, name) THEN Cell(df, row, name) ELSE default
        date == get(DATE, NoDate)
    IN  [ok |-> date # NaN \/ nat = "first_day",
         date |-> IF date = NaN THEN DateV(1, 1, 1) ELSE date,
         product |-> get(PRODUCT, StrV(UNKNOWN)).s,
         category |-> get(CATEGORY, StrV(UNKNOWN)).s,
         sales_amount |-> ValueOf(get(SALES_AMOUNT, NumV(Zero))),
         quantity |-> ValueOf(get(QUANTITY, NumV(Quotient(1, 1)))).num,
         region |-> get(REGION, StrV(UNKNOWN)).s]

\* _convert_to_sales_data over a cleaned frame: a row whose construction
\* raises is skipped
sales_data_of(df, nat) ==
    LET all == [r \in DOMAIN df.data |-> SalesRow(df, df.data[r], nat)]
    IN  SelectSeq(all, LAMBDA x : x.ok)

\* ------------------------------------------------------------ CSV inputs
\* A CSV as the reader sees it: the header cells and the data rows, every
\* cell a text.  The families below vary one column at a time.
SeqsUpTo(S, n) == UNION { [1..k -> S] : k \in 1..n }


OneColumn(h1, h2, fixed, col) ==
    [headers |-> << h1, h2 >>, rows |-> [r \in DOMAIN col |-> << fixed, col[r] >>]]

AmountInputs ==
    { OneColumn(<<"P","r","o","d","u","c","t">>, <<"A","m","o","u","n","t">>, <<"W","i","d","g","e","t">>, col) : col \in SeqsUpTo(
            { <<"5">>, <<"-","5">>, <<"$","1",",","2","0","0",".","5","0">>, <<"a","b","c">>, << >> }, MaxRows) }
QuantityInputs ==
    { OneColumn(<<"P","r","o","d","u","c","t">>, <<"Q","t","y">>, <<"W","i","d","g","e","t">>, col) : col \in SeqsUpTo(
            { <<"3">>, <<"-","3">>, <<"2",".","7">>, << >>, <<"x">> }, MaxRows) }
CategoricalInputs ==
    { OneColumn(<<"A","m","o","u","n","t">>, h, <<"5">>, << cell >>) :
        h \in { <<"P","r","o","d","u","c","t">>, <<"C","a","t","e","g","o","r","y">>, <<"R","e","g","i","o","n">> }, cell \in 
            { <<" ","w","i","d","g","e","t"," ">>, <<"n","e","w"," ","y","o","r","k">>, <<"N","/","A">>, <<"n","/","a">>, <<" ","N","A"," ">>, <<"N","U","L","L">>, <<"n","U","l","l">>, <<"N","o","n","e">>, << >>, <<" ">>, <<"n","a","n">>, <<"#","N","/","A">>, <<"<","N","A",">">>, <<"-","n","a","n">>, <<"o","'","n","e","i","l">> } }
DateInputs ==
    { OneColumn(<<"A","m","o","u","n","t">>, h, <<"5">>, col) :
        h \in { <<"D","a","t","e">>, <<"O","r","d","e","r"," ","D","a","t","e">> }, col \in SeqsUpTo(
            { <<"2","0","2","4","-","0","1","-","0","5">>, <<"0","1","/","0","5","/","2","0","2","4">>, <<"2","5","/","1","2","/","2","0","2","3">>, << >>, <<"s","o","o","n">> }, MaxRows) }
FilterInputs ==
    { [headers |-> << <<"P","r","o","d","u","c","t">>, <<"A","m","o","u","n","t">> >>, rows |-> rows] :
        rows \in SeqsUpTo({ <<"N","/","A">>, <<"W","i","d","g","e","t">> } \X { <<"0">>, <<"5">> }, MaxRows) }
MappingInputs ==
    { [headers |-> << <<"O","r","d","e","r"," ","D","a","t","e">>, <<"S","K","U">>, <<"R","e","v","e","n","u","e">>, <<"Q","t","y">>, <<"M","a","r","k","e","t">> >>, rows |-> << << <<"2","0","2","4","-","0","1","-","0","5">>, <<"W","i","d","g","e","t">>, <<"1","2","0","0",".","5","0">>, <<"3">>, <<"N","o","r","t","h">> >> >>],
      [headers |-> << <<"P","r","o","d","u","c","t"," ","C","a","t","e","g","o","r","y">>, <<"A","m","o","u","n","t">> >>, rows |-> << << <<"T","o","o","l","s">>, <<"5">> >> >>],
      [headers |-> << <<"I","t","e","m","s">>, <<"P","r","i","c","e">> >>, rows |-> << << <<"3">>, <<"5">> >> >>],
      [headers |-> << <<"P","r","o","d","u","c","t">>, <<"C","a","t","e","g","o","r","y">>, <<"R","e","g","i","o","n">>, <<"S","a","l","e","s">> >>, rows |-> << << <<"W","i","d","g","e","t">>, <<"T","o","o","l","s">>, <<"N","o","r","t","h">>, <<"5">> >> >>],
      [headers |-> << <<"I","t","e","m"," ","N","a","m","e">>, <<"T","o","t","a","l"," ","C","o","s","t">>, <<"S","a","l","e"," ","D","a","t","e">> >>, rows |-> << << <<"W","i","d","g","e","t">>, <<"5">>, <<"2","0","2","4","-","0","1","-","0","5">> >> >>],
      [headers |-> << <<"N","a","m","e">>, <<"N","o","t","e","s">> >>, rows |-> << << <<"W","i","d","g","e","t">>, <<"x">> >> >>],
      [headers |-> << <<"N","o","t","e","s">> >>, rows |-> << << <<"x">> >> >>] }

RawInputs ==
    AmountInputs \cup QuantityInputs \cup CategoricalInputs \cup DateInputs
        \cup FilterInputs \cup MappingInputs

\* ------------------------------------------------------ the cleaning call
store_vars == << use_memory, users, sales_data, articles, file_uploads, file_hashes,
                 id_seq, current_user_id, resp, round, uploaded, today, uploads >>

\* pd.read_csv: a file that does not split into more than one column under
\* any separator makes the call raise
ReadCsv(raw) ==
    /\ clean.pc = "idle"
    /\ clean' = IF Len(raw.headers) > 1
                THEN [pc |-> "read",
                      raw |-> raw,
                      df |-> read_csv(raw),
                      original_rows |-> Len(raw.rows),
                      mapped_columns |-> << >>,
                      date_parsed |-> FALSE,
                      parsed |-> << >>,
                      numeric_conversions |-> [sales_amount_outliers_capped |-> 0, sales_amount_na_filled |-> 0,
                                              quantity_defaulted_to_1 |-> 0],
                      filtered |-> read_csv(raw),
                      quality_filters |-> [invalid_product_zero_sales |-> 0, duplicates_removed |-> 0,
                                          extreme_outliers_removed |-> 0, total_rows_filtered |-> 0],
                      final_rows |-> 0,
                      rows |-> << >>]
                ELSE [pc |-> "failed"]
    /\ UNCHANGED store_vars

\* the header cleaning, the synonym scan and the rename
MapColumns ==
    /\ clean.pc = "read"
    /\ LET cleaned == [clean.df EXCEPT !.columns = [i \in DOMAIN clean.df.columns |-> CleanHeader(clean.df.columns[i])]]
           mapped == mapped_columns(cleaned.columns)
       IN  clean' = [clean EXCEPT !.pc = "mapped",
                                  !.mapped_columns = mapped,
                                  !.df = rename(cleaned, mapped)]
    /\ UNCHANGED store_vars

ParseDates(pandas) ==
    /\ clean.pc = "mapped"
    /\ LET r == parse_dates_smart(clean.df, pandas)
       IN  clean' = [clean EXCEPT !.pc = "dated", !.df = r.df, !.date_parsed = r.date_parsed]
    /\ UNCHANGED store_vars

ConvertNumerics ==
    /\ clean.pc = "dated"
    /\ LET r == convert_numerics_smart(clean.df)
       IN  clean' = [clean EXCEPT !.pc = "numeric", !.df = r.df, !.parsed = r.parsed,
                                  !.numeric_conversions = r.conversions]
    /\ UNCHANGED store_vars

ProcessCategorical ==
    /\ clean.pc = "numeric"
    /\ clean' = [clean EXCEPT !.pc = "categorical", !.df = process_categorical_smart(clean.df)]
    /\ UNCHANGED store_vars

\* the quality filters and the return of (df, processing_info): final_rows
\* is the length of the caller's frame
ApplyQualityFilters ==
    /\ clean.pc = "categorical"
    /\ LET r == apply_quality_filters(clean.df)
       IN  clean' = [clean EXCEPT !.pc = "cleaned",
                                  !.filtered = r.filtered,
                                  !.quality_filters = r.filters_applied,
                                  !.final_rows = Len(clean.df.data)]
    /\ UNCHANGED store_vars

\* process_csv turns the returned frame into the rows it hands to storage
ConvertToSalesData(nat) ==
    /\ clean.pc = "cleaned"
    /\ clean' = [clean EXCEPT !.pc = "done", !.rows = sales_data_of(clean.df, nat)]
    /\ UNCHANGED store_vars

\* the call is over and its frame is gone
CleanReturn ==
    /\ clean.pc \in {"done", "failed"}
    /\ clean' = CleanIdle
    /\ UNCHANGED store_vars

CleanNext ==
    \/ \E raw \in RawInputs : ReadCsv(raw)
    \/ MapColumns
    \/ \E pandas \in PandasVersions : ParseDates(pandas)
    \/ ConvertNumerics
    \/ ProcessCategorical
    \/ ApplyQualityFilters
    \/ \E nat \in NatOutcomes : ConvertToSalesData(nat)
    \/ CleanReturn

\* the cleaning call does not touch the store; it is explored beside the
\* in-memory store only
CleanInit == Init /\ use_memory

CleanSpec == CleanInit /\ [][CleanNext]_vars

\* ======================================================= storage failures
\* A failure of the backend is the connection being refused or lost: the
\* statement in flight has no effect and the call on the pool or on the
\* connection raises.  Only the database branch has a backend to fail.

\* the same with the exception leaving the operation
Caught_Reraised(default) == [raised |-> TRUE, value |-> default]

\* try: <backend call> ... except Exception as e: logger.error(...); return default
Caught(default) == [raised |-> FALSE, value |-> default]

Returned(value) == [raised |-> FALSE, value |-> value]

ZeroCounts == [sales_data |-> 0, articles |-> 0, file_uploads |-> 0]

\* what an operation called by one of the other handlers returns from its
\* except branch
OperationFailing(op) ==
    CASE op = "create_user" -> Caught(None)
      [] op = "get_user" -> Caught(None)
      [] op = "get_recent_articles" -> Caught(<< >>)

\* Database.clear_user_data with the backend lost after `done` of its three
\* deletes: the statements run one by one without a transaction, so the
\* deletes already made stay, and the except branch returns zero counts
clear_user_data_failing(user_id, done) ==
    LET keep_sales == SelectSeq(sales_data, LAMBDA item : item.user_id # user_id)
        keep_articles == SelectSeq(articles, LAMBDA item : item.user_id # user_id)
    IN  [sales_data |-> IF done >= 1 THEN keep_sales ELSE sales_data,
         articles |-> IF done >= 2 THEN keep_articles ELSE articles,
         file_uploads |-> file_uploads,
         result |-> Caught(ZeroCounts)]

IngestOps == {"check_file_duplicate", "record_file_upload", "insert_sales_data_batch",
              "get_enhanced_summary"}

\* DataProcessor.process_csv with the backend failing inside the operations
\* named by failing; an exception that leaves an operation is caught by the
\* except branch of process_csv itself
process_csv_failing(c, filename, user_id, tie, failing) ==
    LET file_hash == calculate_file_hash(c)
        unchanged == [file_uploads |-> file_uploads, file_hashes |-> file_hashes,
                      sales_data |-> sales_data, files_seq |-> id_seq.file_uploads,
                      sales_seq |-> id_seq.sales_data]
        failed(detail) ==
            [response |-> ErrorUpload(detail), summary |-> EmptySummary,
             file_upload_id |-> None, raised |-> TRUE]
        summary_of(table) == IF "get_enhanced_summary" \in failing THEN Caught(EmptySummary)
                             ELSE Returned(enhanced_summary(table, user_id, tie))
        record(df) ==
            IF "record_file_upload" \in failing
            THEN [file_uploads |-> file_uploads, file_hashes |-> file_hashes,
                  files_seq |-> id_seq.file_uploads, result |-> Caught(None)]
            ELSE CHOOSE rec \in { [file_uploads |-> r.file_uploads, file_hashes |-> r.file_hashes,
                                   files_seq |-> r.files_seq, result |-> Returned(r.file_id)] :
                                  r \in { record_file_upload(file_hash, filename, Len(df), user_id) } } : TRUE
        insert(data_list, file_upload_id) ==
            IF "insert_sales_data_batch" \in failing /\ data_list # << >>
            THEN [sales_data |-> sales_data, sales_seq |-> id_seq.sales_data, result |-> Caught(0)]
            ELSE CHOOSE ins \in { [sales_data |-> i.sales_data, sales_seq |-> i.sales_seq,
                                   result |-> Returned(i.stored_count)] :
                                  i \in { insert_sales_data_batch(data_list, user_id, file_upload_id) } } : TRUE
        after_record(rec) ==
            [file_uploads |-> rec.file_uploads, file_hashes |-> rec.file_hashes,
             sales_data |-> sales_data, files_seq |-> rec.files_seq,
             sales_seq |-> id_seq.sales_data]
        after_insert(rec, ins) ==
            [after_record(rec) EXCEPT !.sales_data = ins.sales_data, !.sales_seq = ins.sales_seq]
        summarized(df, rec, ins, summary) ==
            IF summary.raised THEN after_insert(rec, ins) @@ failed("storage")
            ELSE after_insert(rec, ins) @@
                 [response |-> IF comprehensive_insights_raise(summary.value)
                               THEN ErrorUpload("float division by zero")
                               ELSE [status |-> "success", rows_processed |-> Len(df),
                                     rows_stored |-> ins.result.value,
                                     file_hash |-> file_hash, duplicate_upload |-> FALSE,
                                     detail |-> ""],
                  summary |-> summary.value,
                  file_upload_id |-> rec.result.value,
                  raised |-> FALSE]
        inserted(df, rec, ins) ==
            IF ins.result.raised THEN after_record(rec) @@ failed("storage")
            ELSE CHOOSE out \in { summarized(df, rec, ins, summary) :
                                  summary \in { summary_of(ins.sales_data) } } : TRUE
        recorded(df, rec) ==
            IF rec.result.raised THEN unchanged @@ failed("storage")
            ELSE CHOOSE out \in { inserted(df, rec, ins) :
                                  ins \in { insert(convert_to_sales_data(df), rec.result.value) } } : TRUE
        fresh(df) == CHOOSE out \in { recorded(df, rec) : rec \in { record(df) } } : TRUE
        duplicate(summary) ==
            IF summary.raised THEN unchanged @@ failed("storage")
            ELSE unchanged @@
                 [response |-> [status |-> "success", rows_processed |-> 0, rows_stored |-> 0,
                                file_hash |-> file_hash, duplicate_upload |-> TRUE,
                                detail |-> "File already uploaded previously - skipping duplicate"],
                  summary |-> summary.value,
                  file_upload_id |-> None, raised |-> FALSE]
        checked(is_duplicate) ==
            IF is_duplicate.raised THEN unchanged @@ failed("storage")
            ELSE IF is_duplicate.value
            THEN CHOOSE out \in { duplicate(summary) : summary \in { summary_of(sales_data) } } : TRUE
            ELSE IF ~FileTable(c).parsed
            THEN unchanged @@ [failed("Could not parse CSV file with standard formats") EXCEPT !.raised = FALSE]
            ELSE CHOOSE out \in { fresh(df) : df \in { FileTable(c).rows } } : TRUE
    IN  CHOOSE out \in { checked(is_duplicate) :
                         is_duplicate \in { IF "check_file_duplicate" \in failing THEN Caught(FALSE)
                                            ELSE Returned(check_file_duplicate(file_hash, user_id)) } } : TRUE

\* POST /upload-data while the backend fails inside the operations of failing
FailingIngest(c, filename, tie, failing) ==
    /\ ~use_memory
    /\ \E out \in { process_csv_failing(c, filename, current_user_id, tie, failing) } :
           /\ out.files_seq <= MaxFileId
           /\ out.sales_seq <= MaxStored
           /\ file_uploads' = out.file_uploads
           /\ file_hashes' = out.file_hashes
           /\ sales_data' = out.sales_data
           /\ id_seq' = [id_seq EXCEPT !.file_uploads = out.files_seq, !.sales_data = out.sales_seq]
           /\ resp' = [op |-> "ingest", user_id |-> current_user_id, content |-> c,
                       failing |-> failing, raised |-> out.raised, summary |-> out.summary,
                       file_upload_id |-> out.file_upload_id,
                       parsed |-> FileTable(c).parsed] @@ out.response
           /\ uploaded' = IF out.response.status = "success" /\ ~out.response.duplicate_upload
                          THEN uploaded \cup { << current_user_id, c >> }
                          ELSE uploaded
    /\ UNCHANGED << clean, today, uploads, use_memory, users, articles, current_user_id, round >>

\* a handler's call of one operation while the backend fails: the result
\* the handler has in hand
FailingCall(op) ==
    /\ ~use_memory
    /\ resp' = [op |-> "storage_call", call |-> op] @@ OperationFailing(op)
    /\ UNCHANGED << clean, today, uploads, use_memory, users, sales_data, articles, file_uploads, file_hashes,
                    id_seq, current_user_id, round, uploaded >>

\* DELETE /clear-data while the backend fails after `done` deletes
FailingClear(done) ==
    /\ ~use_memory
    /\ current_user_id # None
    /\ \E out \in { clear_user_data_failing(current_user_id, done) } :
           /\ sales_data' = out.sales_data
           /\ articles' = out.articles
           /\ file_uploads' = out.file_uploads
           /\ resp' = [op |-> "storage_call", call |-> "clear_user_data"] @@ out.result
    /\ UNCHANGED << clean, today, uploads, use_memory, users, file_hashes, id_seq, current_user_id, round, uploaded >>

\* generate_articles_with_check up to its first branch while the backend
\* fails inside the operations of failing: get_storage_info then gives
\* "Error" for file_count, which is not 0
FailingCheckData(tie, failing) ==
    /\ ~use_memory
    /\ round.pc = "CHECK_DATA"
    /\ \E summary \in { IF "get_enhanced_summary" \in failing THEN Caught(EmptySummary)
                        ELSE Returned(get_enhanced_summary(round.user_id, tie)) } :
       LET no_files == IF "get_storage_info" \in failing THEN FALSE ELSE file_count = 0
           answer(status) == [op |-> "generate", status |-> status, articles_generated |-> 0,
                              articles |-> << >>, failing |-> failing,
                              summary |-> summary.value]
       IN  round' = IF summary.raised
                    THEN [round EXCEPT !.pc = "DONE", !.response = answer("exception")]
                    ELSE IF no_files \/ summary.value.record_count = 0
                    THEN [round EXCEPT !.pc = "NO_DATA", !.response = answer("error")]
                    ELSE [round EXCEPT !.pc = "GENERATING", !.response = answer("pending")]
    /\ UNCHANGED << clean, today, uploads, use_memory, users, sales_data, articles, file_uploads, file_hashes,
                    id_seq, current_user_id, resp, uploaded >>

\* _store_articles_concurrent while the backend may fail inside
\* insert_article: the None of a failed insert is filtered out of the list
FailingStoreStep(k, fails) ==
    /\ ~use_memory
    /\ round.pc = "STORING"
    /\ k \in round.pending
    /\ IF 1 \notin round.pending THEN k = MinOf(round.pending)
       ELSE IF round.pending = DOMAIN round.drafts
       THEN k \in {MinOf(round.pending), MaxOf(round.pending)}
       ELSE k = MaxOf(round.pending)
    /\ LET result == IF fails THEN Caught(NoArticle)
                     ELSE Returned(insert_article(round.drafts[k].content,
                                                  round.drafts[k].agent_type, round.user_id))
           stored == [round.stored EXCEPT ![k] = result.value]
           kept == SelectSeq(stored, LAMBDA a : a # NoArticle)
       IN  /\ articles' = IF fails THEN articles ELSE Append(articles, ArticleRecord(result.value))
           /\ id_seq' = IF fails THEN id_seq ELSE [id_seq EXCEPT !.articles = result.value.id]
           /\ round' = IF round.pending = {k}
                       THEN [round EXCEPT !.pending = {}, !.stored = stored, !.pc = "DONE",
                                          !.response = [op |-> "generate", status |-> "success",
                                                        articles_generated |-> Len(kept),
                                                        articles |-> kept,
                                                        failing |-> round.response.failing,
                                                        summary |-> round.response.summary]]
                       ELSE [round EXCEPT !.pending = round.pending \ {k}, !.stored = stored]
    /\ UNCHANGED << clean, today, uploads, use_memory, users, sales_data, file_uploads, file_hashes,
                    current_user_id, resp, uploaded >>

\* the requests are explored one at a time and before any draft is stored;
\* a draft round is requested after an ingestion that met no failure
Quiet == round.pc = "idle" /\ articles = << >>

FaultNext ==
    \/ Quiet /\ \E req \in {r \in UserRequests : r.username = "alice"} : CreateUser(req)
    \/ Quiet /\ \E c \in {"c1"}, failing \in SUBSET IngestOps :
                   FailingIngest(c, "a.csv", "first", failing)
    \/ Quiet /\ \E op \in {"create_user", "get_user", "get_recent_articles"} : FailingCall(op)
    \/ Quiet /\ \E done \in 0..2 : FailingClear(done)
    \/ Quiet /\ resp.op = "ingest" /\ resp.failing = {} /\ GenerateArticles
    \/ \E failing \in SUBSET {"get_storage_info", "get_enhanced_summary"} : FailingCheckData("first", failing)
    \/ GenerateStep("ok")
    \/ \E k \in DOMAIN agents, fails \in BOOLEAN : FailingStoreStep(k, fails)
    \/ RoundReturn

\* the handlers against a database whose backend may fail at any call
FaultInit == Init /\ ~use_memory

FaultSpec == FaultInit /\ [][FaultNext]_vars

\* =================================================== concurrent ingestion
\* Against the database every storage call of process_csv suspends in
\* pool.acquire(), so the calls of two requests interleave at those points;
\* the calls of the in-memory store never suspend, and process_csv then runs
\* from its first line to its return without another task in between
\* (UploadData).
\*
\* POST /upload-data up to the first storage call of process_csv: the
\* fingerprint is computed and check_file_duplicate is awaited
UploadBegin(request, c, filename) ==
    /\ ~use_memory
    /\ uploads[request].pc \in {"idle", "done"}
    /\ uploads' = [uploads EXCEPT ![request] =
                      [pc |-> "check", content |-> c, filename |-> filename,
                       user_id |-> current_user_id, file_hash |-> calculate_file_hash(c)]]
    /\ UNCHANGED << clean, today, use_memory, users, sales_data, articles, file_uploads,
                    file_hashes, id_seq, current_user_id, resp, round, uploaded >>

\* process_csv returns response and the handler of the request ends
UploadDone(request, call, response) ==
    /\ uploads' = [uploads EXCEPT ![request] = [call EXCEPT !.pc = "done"] @@ [response |-> response]]
    /\ resp' = [op |-> "upload", user_id |-> call.user_id, content |-> call.content] @@ response
    /\ uploaded' = IF response.status = "success" /\ ~response.duplicate_upload
                   THEN uploaded \cup { << call.user_id, call.content >> }
                   ELSE uploaded

\* mutant of UploadCheck: the check waits while another request is between
\* its own check and its return
UploadCheck_Locked(request) ==
    /\ uploads[request].pc = "check"
    /\ \A other \in Requests \ {request} : uploads[other].pc \notin {"record", "insert", "summary"}
    /\ \E call \in { uploads[request] @@
                     [is_duplicate |-> check_file_duplicate(uploads[request].file_hash,
                                                            uploads[request].user_id)] } :
          IF call.is_duplicate
          THEN UploadDone(request, call,
                          [status |-> "success", rows_processed |-> 0, rows_stored |-> 0,
                           file_hash |-> call.file_hash, duplicate_upload |-> TRUE,
                           detail |-> "File already uploaded previously - skipping duplicate"])
          ELSE IF ~FileTable(call.content).parsed
          THEN UploadDone(request, call, ErrorUpload("Could not parse CSV file with standard formats"))
          ELSE /\ uploads' = [uploads EXCEPT ![request] = [call EXCEPT !.pc = "record"]]
               /\ UNCHANGED << resp, uploaded >>
    /\ UNCHANGED << clean, today, use_memory, users, sales_data, articles, file_uploads,
                    file_hashes, id_seq, current_user_id, round >>

\* check_file_duplicate answers; a duplicate is answered at once, an
\* unreadable file raises in _read_and_clean_csv_dynamic, and otherwise
\* record_file_upload is awaited
UploadCheck(request) ==
    /\ uploads[request].pc = "check"
    /\ \E call \in { uploads[request] @@
                     [is_duplicate |-> check_file_duplicate(uploads[request].file_hash,
                                                            uploads[request].user_id)] } :
          IF call.is_duplicate
          THEN UploadDone(request, call,
                          [status |-> "success", rows_processed |-> 0, rows_stored |-> 0,
                           file_hash |-> call.file_hash, duplicate_upload |-> TRUE,
                           detail |-> "File already uploaded previously - skipping duplicate"])
          ELSE IF ~FileTable(call.content).parsed
          THEN UploadDone(request, call, ErrorUpload("Could not parse CSV file with standard formats"))
          ELSE /\ uploads' = [uploads EXCEPT ![request] = [call EXCEPT !.pc = "record"]]
               /\ UNCHANGED << resp, uploaded >>
    /\ UNCHANGED << clean, today, use_memory, users, sales_data, articles, file_uploads,
                    file_hashes, id_seq, current_user_id, round >>

\* record_file_upload answers with the file_upload_id; the rows are
\* converted and insert_sales_data_batch is awaited
UploadRecord(request) ==
    /\ uploads[request].pc = "record"
    /\ \E call \in { uploads[request] } :
       \E rec \in { record_file_upload(call.file_hash, call.filename,
                                       Len(FileTable(call.content).rows), call.user_id) } :
          /\ rec.files_seq <= MaxFileId
          /\ file_uploads' = rec.file_uploads
          /\ file_hashes' = rec.file_hashes
          /\ id_seq' = [id_seq EXCEPT !.file_uploads = rec.files_seq]
          /\ uploads' = [uploads EXCEPT ![request] =
                            [call EXCEPT !.pc = "insert"] @@ [file_upload_id |-> rec.file_id]]
    /\ UNCHANGED << clean, today, use_memory, users, sales_data, articles,
                    current_user_id, resp, round, uploaded >>

\* insert_sales_data_batch answers with the stored count; get_enhanced_summary
\* is awaited
UploadInsert(request) ==
    /\ uploads[request].pc = "insert"
    /\ \E call \in { uploads[request] } :
       \E ins \in { insert_sales_data_batch(convert_to_sales_data(FileTable(call.content).rows),
                                            call.user_id, call.file_upload_id) } :
          /\ ins.sales_seq <= MaxStored
          /\ sales_data' = ins.sales_data
          /\ id_seq' = [id_seq EXCEPT !.sales_data = ins.sales_seq]
          /\ uploads' = [uploads EXCEPT ![request] =
                            [call EXCEPT !.pc = "summary"] @@ [stored_count |-> ins.stored_count]]
    /\ UNCHANGED << clean, today, use_memory, users, articles, file_uploads, file_hashes,
                    current_user_id, resp, round, uploaded >>

\* get_enhanced_summary answers, _generate_comprehensive_insights runs and
\* process_csv returns
UploadSummary(request, tie) ==
    /\ uploads[request].pc = "summary"
    /\ \E call \in { uploads[request] } :
       \E summary \in { enhanced_summary(sales_data, call.user_id, tie) } :
          UploadDone(request, call,
                     IF comprehensive_insights_raise(summary)
                     THEN ErrorUpload("float division by zero")
                     ELSE [status |-> "success",
                           rows_processed |-> Len(FileTable(call.content).rows),
                           rows_stored |-> call.stored_count,
                           file_hash |-> call.file_hash, duplicate_upload |-> FALSE,
                           detail |-> ""])
    /\ UNCHANGED << clean, today, use_memory, users, sales_data, articles, file_uploads,
                    file_hashes, id_seq, current_user_id, round >>

\* ====================================================== ingestion insights
\* the rules of _generate_comprehensive_insights in their order, each the
\* sentences it appends (none or one).  raised: the concentration rule
\* divides the top product's total by a zero summary.total_sales.
\* cv = std / mean is compared through cv^2 = n (n Q - S^2) / ((n - 1) S^2)
\* with S the sum and Q the sum of squares of the amounts; a zero mean
\* gives inf (std > 0) or nan (std = 0), no exception
comprehensive_rules(df, processing_info, summary) ==
    LET n == Len(df)
        has == summary.record_count > 0
        avg == summary.average_sales
        total == summary.total_sales
        ranked == has /\ summary.top_products # << >>
        top == summary.top_products[1].total_sales
        above60 == \/ total > 0 /\ top * 100 > 60 * total
                   \/ total < 0 /\ top * 100 < 60 * total
        below20 == \/ total > 0 /\ top * 100 < 20 * total
                   \/ total < 0 /\ top * 100 > 20 * total
        S == SumAmounts(df)
        Q == SumAmounts([i \in DOMAIN df |-> [sales_amount |-> df[i].sales_amount * df[i].sales_amount]])
        D == n * Q - S * S
        cv2 == RScale(RScale(RScale(Quotient(D, 1), 1, S), 1, S), n, n - 1)
        high_cv == IF S > 0 THEN RLess(Quotient(9, 4), cv2) ELSE S = 0 /\ D > 0
        low_cv == IF S > 0 THEN RLess(cv2, Quotient(9, 100)) ELSE S < 0
        dates == { df[i].date : i \in DOMAIN df } \ {None}
    IN  [raised |-> ranked /\ total = 0,
         rules |-> <<
            IF processing_info.rows_dropped > 0 THEN << "data_quality" >> ELSE << >>,
            IF has THEN << "dataset" >> ELSE << >>,
            IF has /\ avg.num > 500 * avg.den THEN << "high_value" >>
            ELSE IF has /\ avg.num < 50 * avg.den THEN << "low_value" >> ELSE << >>,
            IF ranked /\ total # 0 /\ above60 THEN << "high_concentration" >>
            ELSE IF ranked /\ total # 0 /\ below20 /\ summary.unique_products > 5
                 THEN << "well_diversified" >> ELSE << >>,
            IF has /\ summary.unique_regions = 1 THEN << "single_region" >>
            ELSE IF has /\ summary.unique_regions > 5 THEN << "many_regions" >> ELSE << >>,
            IF has /\ summary.unique_products > 20 THEN << "extensive_catalog" >>
            ELSE IF has /\ summary.unique_products < 5 THEN << "limited_range" >> ELSE << >>,
            IF processing_info.mapped_columns > 0 THEN << "mapped_columns" >> ELSE << >>,
            IF n > 10 /\ high_cv THEN << "high_variability" >>
            ELSE IF n > 10 /\ low_cv THEN << "consistent_values" >> ELSE << >>,
            IF dates # {} /\ MaxOf(dates) - MinOf(dates) > 90 THEN << "multi_quarter" >> ELSE << >>
         >>]

\* mutant of generate_comprehensive_insights: the cut keeps the last six
generate_comprehensive_insights_KeepLast(df, processing_info, summary) ==
    LET out == comprehensive_rules(df, processing_info, summary)
        appended == out.rules[1] \o out.rules[2] \o out.rules[3] \o out.rules[4] \o out.rules[5]
                    \o out.rules[6] \o out.rules[7] \o out.rules[8] \o out.rules[9]
    IN  [raised |-> out.raised, appended |-> appended,
         insights |-> IF Len(appended) <= 6 THEN appended
                      ELSE SubSeq(appended, Len(appended) - 5, Len(appended))]

\* _generate_comprehensive_insights: the list the rules appended to, and
\* the returned insights[:6]
generate_comprehensive_insights(df, processing_info, summary) ==
    LET out == comprehensive_rules(df, processing_info, summary)
        appended == out.rules[1] \o out.rules[2] \o out.rules[3] \o out.rules[4] \o out.rules[5]
                    \o out.rules[6] \o out.rules[7] \o out.rules[8] \o out.rules[9]
    IN  [raised |-> out.raised, appended |-> appended, insights |-> Take(appended, 6)]

\* process_csv reaches its summary and insight lines with the frame of the
\* first ingestion into an empty store, no owner given: n rows of n
\* products over n_regions regions, amounts and dates following a shape
GenerateInsightsCall(n, n_regions, shape, dated, rows_dropped, n_mapped) ==
    /\ resp' = [op |-> "insights_call", rows |-> n, regions |-> n_regions, shape |-> shape,
                dated |-> dated, rows_dropped |-> rows_dropped, mapped_columns |-> n_mapped]
    /\ UNCHANGED << use_memory, users, sales_data, articles, file_uploads, file_hashes,
                    id_seq, current_user_id, uploaded, round, clean, today, uploads >>

\* the summary is the one the store gives for these rows (the in-memory
\* summary carries its own insight list), and the insights are generated
GenerateInsightsReturn ==
    /\ resp.op = "insights_call"
    /\ LET amount(i) == CASE resp.shape = "flat_low" -> 10
                          [] resp.shape = "flat_high" -> 1100
                          [] resp.shape = "spiky" -> IF i = 1 THEN 1000 ELSE 0
                          [] resp.shape = "mixed" -> IF i % 2 = 1 THEN 10 ELSE 30
                          [] resp.shape = "zero" -> 0
           day(i) == CASE resp.dated = "none" -> None
                       [] resp.dated = "long" -> IF i = 1 THEN 1 ELSE 120
       IN  \E df \in { [i \in 1..resp.rows |->
                          Row(i, amount(i), 1 + (i % resp.regions), day(i), TRUE)] } :
           \E summary \in { enhanced_summary(df, None, "first") } :
           \E out \in { generate_comprehensive_insights(df,
                           [original_rows |-> resp.rows + resp.rows_dropped,
                            rows_dropped |-> resp.rows_dropped,
                            mapped_columns |-> resp.mapped_columns], summary) } :
               resp' = [op |-> "insights", rows |-> resp.rows, shape |-> resp.shape,
                        summary_insights |-> summary.insights,
                        raised |-> out.raised, appended |-> out.appended,
                        insights |-> out.insights]
    /\ UNCHANGED << use_memory, users, sales_data, articles, file_uploads, file_hashes,
                    id_seq, current_user_id, uploaded, round, clean, today, uploads >>

\* ============================================================ recent drafts
\* midnight passes: date.today() and CURRENT_DATE move on by one day
Tick ==
    /\ today < MaxDay
    /\ today' = today + 1
    /\ UNCHANGED << use_memory, users, sales_data, articles, file_uploads, file_hashes,
                    id_seq, current_user_id, resp, round, uploaded, clean, uploads >>

\* GET /articles/recent?days=...: 400 outside 1..365, else
\* Database.get_recent_articles(days, current_user_id).  The in-memory
\* branch takes date.today() as its cutoff and keeps insertion order; the
\* database branch takes CURRENT_DATE - days and orders by created_at DESC
GetRecentArticles(days) ==
    /\ IF days < 1 \/ days > 365
       THEN resp' = [op |-> "recent", status |-> 400, days |-> days, user_id |-> current_user_id]
       ELSE LET cutoff_date == IF use_memory THEN today ELSE today - days
                owned(art) == current_user_id = None \/ art.user_id = current_user_id
                found == SelectSeq(articles, LAMBDA art : art.generated_date >= cutoff_date /\ owned(art))
            IN  resp' = [op |-> "recent", status |-> 200, days |-> days, user_id |-> current_user_id,
                         articles |-> IF use_memory THEN found ELSE Reverse(found)]
    /\ UNCHANGED << use_memory, users, sales_data, articles, file_uploads, file_hashes,
                    id_seq, current_user_id, round, uploaded, clean, today, uploads >>

\* ---------------------------------------------------------- specification
\* the store handlers, one request at a time
StoreContents == {"c1", "c3"}

Next ==
    \/ \E req \in UserRequests : CreateUser(req)
    \/ \E user_id \in 1..(MaxUsers + 1) : SetCurrentUser(user_id)
    \/ \E c \in StoreContents, filename \in Filenames, tie \in TieOrders : UploadData(c, filename, tie)
    \/ ClearData

Spec == Init /\ [][Next]_vars

\* the aggregator over the row sets that ingestions by successive owners build
AggContents == {"c1", "c2", "c4"}

AggNext ==
    \/ \E req \in {r \in UserRequests : r.username # ""} : CreateUser(req)
    \/ \E c \in AggContents, tie \in TieOrders : UploadData(c, "a.csv", tie)
    \/ \E tie \in TieOrders : GetStats(tie)

AggSpec == Init /\ [][AggNext]_vars

\* the draft round, interleaved with the handlers that change what it reads
RoundContents == {"c1"}

RoundProgress ==
    \/ \E tie \in TieOrders : CheckData(tie)
    \/ \E outcome \in {"ok", "fail"} : GenerateStep(outcome)
    \/ \E k \in DOMAIN agents : StoreStep(k)

RoundNext ==
    \/ \E req \in {r \in UserRequests : r.username = "alice"} : CreateUser(req)
    \/ \E c \in RoundContents, tie \in TieOrders : UploadData(c, "a.csv", tie)
    \/ GenerateArticles
    \/ \E c \in RoundContents, tie \in TieOrders : GenerateArticlesWithFile(c, "a.csv", tie)
    \/ \E tie \in TieOrders : CheckData(tie)
    \/ \E outcome \in {"ok", "fail"} : GenerateStep(outcome)
    \/ \E k \in DOMAIN agents : StoreStep(k)
    \/ RoundReturn

RoundSpec == Init /\ [][RoundNext]_vars

\* the event loop runs every ready task and the external calls return
FairRoundSpec == RoundSpec /\ WF_vars(RoundProgress)

\* ingestions in flight at once, over both stores
RaceNext ==
    \/ \E req \in {r \in UserRequests : r.username = "alice"} : CreateUser(req)
    \/ use_memory /\ \E c \in {"c1", "c3"} : UploadData(c, "a.csv", "first")
    \/ \E request \in Requests, c \in {"c1", "c3"} : UploadBegin(request, c, "a.csv")
    \/ \E request \in Requests : UploadCheck(request)
    \/ \E request \in Requests : UploadRecord(request)
    \/ \E request \in Requests : UploadInsert(request)
    \/ \E request \in Requests : UploadSummary(request, "first")

RaceSpec == Init /\ [][RaceNext]_vars

\* the insight rules over frames of every shape, over both stores
InsightNext ==
    \/ \E n \in {1, 11, 21}, n_regions \in {1, 2, 6},
          shape \in {"flat_low", "flat_high", "spiky", "mixed", "zero"},
          dated \in {"none", "long"}, rows_dropped \in {0, 1}, n_mapped \in {0, 3} :
           GenerateInsightsCall(n, n_regions, shape, dated, rows_dropped, n_mapped)
    \/ GenerateInsightsReturn

InsightSpec == Init /\ [][InsightNext]_vars

\* the in-memory store through uploads by two owners and clear-data
ReuseNext ==
    \/ \E req \in UserRequests : CreateUser(req)
    \/ \E user_id \in 1..MaxUsers : SetCurrentUser(user_id)
    \/ \E c \in AggContents : UploadData(c, "a.csv", "first")
    \/ ClearData

ReuseSpec == CleanInit /\ [][ReuseNext]_vars

\* drafts stored on successive days and the recent-drafts query
RecentNext ==
    \/ \E req \in {r \in UserRequests : r.username = "alice"} : CreateUser(req)
    \/ UploadData("c1", "a.csv", "first")
    \/ GenerateArticles
    \/ CheckData("first")
    \/ GenerateStep("ok")
    \/ \E k \in DOMAIN agents : StoreStep(k)
    \/ RoundReturn
    \/ Tick
    \/ \E days \in {0, 1, 7} : GetRecentArticles(days)

RecentSpec == Init /\ [][RecentNext]_vars

\* ======================================================== store handlers
OwnedBy(table, user_id) == SelectSeq(table, LAMBDA item : item.user_id = user_id)
NotOwnedBy(table, user_id) == SelectSeq(table, LAMBDA item : item.user_id # user_id)

\* C1: once an owner's ingestion of some content has returned success, a
\* further ingestion of the same bytes by that owner, under any name, is
\* answered success / duplicate_upload with zero rows processed and stored,
\* and changes neither the stored rows nor the file records.
C1_SecondIngestIsDuplicate ==
    [][\A c \in StoreContents, filename \in Filenames, tie \in TieOrders :
          (<< current_user_id, c >> \in uploaded /\ UploadData(c, filename, tie))
          => /\ resp'.status = "success"
             /\ resp'.duplicate_upload
             /\ resp'.rows_processed = 0
             /\ resp'.rows_stored = 0
             /\ UNCHANGED << sales_data, file_uploads >>]_vars

\* C2: no owner has two file records with the same fingerprint, and an
\* ingestion is answered as a duplicate only if the uploading owner already
\* has a file record with that fingerprint.
C2_DuplicateScopedToOwner ==
    /\ [](\A i, j \in DOMAIN file_uploads :
             (i # j /\ file_uploads[i].user_id = file_uploads[j].user_id)
             => file_uploads[i].file_hash # file_uploads[j].file_hash)
    /\ [][\A c \in StoreContents, filename \in Filenames, tie \in TieOrders :
             (resp'.op = "upload" /\ resp'.duplicate_upload /\ UploadData(c, filename, tie))
             => \E i \in DOMAIN file_uploads :
                   /\ file_uploads[i].file_hash = calculate_file_hash(c)
                   /\ file_uploads[i].user_id = current_user_id]_vars

\* C3: the ingestion of a content that no encoding/separator combination
\* parses is answered with status error and the parse failure's message, and
\* records no fingerprint, no file record and no row.
C3_UnreadableStoresNothing ==
    [][\A c \in StoreContents, filename \in Filenames, tie \in TieOrders :
          (~FileTable(c).parsed /\ UploadData(c, filename, tie))
          => /\ resp'.status = "error"
             /\ resp'.detail = "Could not parse CSV file with standard formats"
             /\ resp'.rows_stored = 0
             /\ UNCHANGED << sales_data, file_uploads, file_hashes, id_seq >>]_vars

\* an unreadable upload was answered while the store held earlier uploads
C3_Witness ==
    /\ resp.op = "upload"
    /\ ~FileTable(resp.content).parsed
    /\ resp.status = "error"
    /\ file_uploads # << >>
    /\ sales_data # << >>

\* C7: clear-data for the current user removes all of that user's rows,
\* drafts and file records in one step, reports the three counts of what it
\* removed, and leaves every other owner's rows, drafts and file records as
\* they were.
C7_ClearRemovesAllThree ==
    [][(ClearData /\ current_user_id # None)
          => /\ OwnedBy(sales_data', current_user_id) = << >>
             /\ OwnedBy(articles', current_user_id) = << >>
             /\ OwnedBy(file_uploads', current_user_id) = << >>
             /\ resp'.records_cleared =
                    [sales_data |-> Len(OwnedBy(sales_data, current_user_id)),
                     articles |-> Len(OwnedBy(articles, current_user_id)),
                     file_uploads |-> Len(OwnedBy(file_uploads, current_user_id))]
             /\ NotOwnedBy(sales_data', current_user_id) = NotOwnedBy(sales_data, current_user_id)
             /\ NotOwnedBy(articles', current_user_id) = NotOwnedBy(articles, current_user_id)
             /\ NotOwnedBy(file_uploads', current_user_id) = NotOwnedBy(file_uploads, current_user_id)]_vars

\* C8: a step that changes the current-user pointer changes no stored row,
\* file record or draft, so each owner's rows are what they were; set-current
\* for an id that names no user fails and leaves the pointer where it was.
C8_PointerSwitchKeepsData ==
    [][/\ (current_user_id' # current_user_id)
          => /\ UNCHANGED << sales_data, articles, file_uploads, file_hashes >>
             /\ \E i \in DOMAIN users' : users'[i].id = current_user_id'
       /\ \A user_id \in 1..(MaxUsers + 1) :
             (SetCurrentUser(user_id) /\ ~\E i \in DOMAIN users : users[i].id = user_id)
             => /\ current_user_id' = current_user_id
                /\ resp'.status = "not_found"]_vars

\* the pointer was switched to an existing user while another owner's rows are stored
C8_Witness ==
    /\ resp.op = "set_current"
    /\ resp.status = "success"
    /\ current_user_id = resp.user_id
    /\ \E i \in DOMAIN sales_data : sales_data[i].user_id \notin {None, current_user_id}

\* ============================================================ draft round
FailedCalls == { i \in DOMAIN round.results : round.results[i].call = "fail" }
SucceededCalls == { i \in DOMAIN round.results : round.results[i].call = "ok" }

\* C4: a round whose data check finds zero ingested files, or zero rows in
\* the summary of its scope, ends in NO_DATA with status error, zero
\* articles and an empty list; it has made no generation call, stores no
\* draft, and from NO_DATA the round only returns.
C4_NoDataRefused ==
    /\ [][\A tie \in TieOrders :
             (/\ round.pc = "CHECK_DATA"
              /\ (file_count = 0 \/ get_enhanced_summary(round.user_id, tie).record_count = 0)
              /\ CheckData(tie))
             => /\ round'.pc = "NO_DATA"
                /\ round'.response.status = "error"
                /\ round'.response.articles_generated = 0
                /\ round'.response.articles = << >>
                /\ round'.results = << >>
                /\ UNCHANGED articles]_vars
    /\ [][round.pc = "NO_DATA"
             => /\ round'.pc \in {"NO_DATA", "idle"}
                /\ round'.results = << >>
                /\ round'.stored = << >>]_vars

\* a round was refused although files had been ingested: its scope had no rows
C4_Witness ==
    /\ round.pc = "NO_DATA"
    /\ round.response.status = "error"
    /\ file_count > 0
    /\ sales_data # << >>

\* C5: a finished round in which k persona calls failed reports success
\* with 5 - k articles, and its articles are the drafts of exactly the
\* personas whose call succeeded.
C5_FailedPersonasDropped ==
    (round.pc = "DONE")
    => /\ round.response.status = "success"
       /\ round.response.articles_generated = Len(agents) - Cardinality(FailedCalls)
       /\ { round.response.articles[i].article_type : i \in DOMAIN round.response.articles }
              = { agents[i] : i \in SucceededCalls }

RoundTransitions ==
    { << "idle", "CHECK_DATA" >>, << "CHECK_DATA", "NO_DATA" >>,
      << "CHECK_DATA", "GENERATING" >>, << "GENERATING", "STORING" >>,
      << "STORING", "DONE" >>, << "NO_DATA", "idle" >>, << "DONE", "idle" >> }

\* C6: a round moves only along CHECK_DATA -> NO_DATA or CHECK_DATA ->
\* GENERATING -> STORING -> DONE; a draft is stored only while the round is
\* storing and all five persona calls have settled; and every round that
\* starts reaches NO_DATA or DONE.
C6_RoundStateMachine ==
    /\ [][round'.pc # round.pc => << round.pc, round'.pc >> \in RoundTransitions]_vars
    /\ [][Len(articles') > Len(articles)
             => /\ round.pc = "STORING"
                /\ Len(round.results) = Len(agents)]_vars
    /\ [](round.pc \in {"STORING", "DONE"} => Len(round.results) = Len(agents))
    /\ (round.pc = "CHECK_DATA") ~> (round.pc \in {"NO_DATA", "DONE"})

\* a round ran through to DONE with drafts stored
C6_Witness ==
    /\ round.pc = "DONE"
    /\ round.response.articles_generated > 0
    /\ articles # << >>

\* ============================================================= aggregator
\* the scopes a summary can be asked for: everything, or one user's rows
Scopes == {None} \cup { users[i].id : i \in DOMAIN users }

RowsOf(user_id) ==
    SelectSeq(sales_data, LAMBDA item : user_id = None \/ item.user_id = user_id)

RECURSIVE AmountSum(_)
AmountSum(rows) == IF rows = << >> THEN 0 ELSE rows[1].sales_amount + AmountSum(Tail(rows))

\* a is the exact quotient t / n
IsQuotient(a, t, n) == a.den > 0 /\ a.num * n = t * a.den

\* C9: for every scope, the summary's average is the sum of the amounts of
\* the stored rows in scope divided by their number, and 0 when the scope
\* has no row; it is also the summary's own total over its own count.
C9_AverageIsTotalOverCount ==
    \A user_id \in Scopes, tie \in TieOrders :
        LET summary == get_enhanced_summary(user_id, tie)
            rows == RowsOf(user_id)
        IN  /\ IF Len(rows) > 0
               THEN IsQuotient(summary.average_sales, AmountSum(rows), Len(rows))
               ELSE summary.average_sales = Zero
            /\ IF summary.record_count > 0
               THEN IsQuotient(summary.average_sales, summary.total_sales, summary.record_count)
               ELSE summary.average_sales = Zero

\* /stats answered with a summary of several rows whose average is not a whole number
C9_Witness ==
    /\ resp.op = "stats"
    /\ resp.summary.record_count > 1
    /\ resp.summary.average_sales.den > 1
    /\ \E i \in DOMAIN sales_data : sales_data[i].user_id # resp.user_id

FirstRowOf(rows, product) == MinOf({ i \in DOMAIN rows : rows[i].product = product })

\* C10: for every scope, the top-products list carries per-product sums in
\* descending order, products with equal sums stand in the order of their
\* first stored row, and the list has at most 5 and at most
\* distinct-product-count entries.
C10_TopProductsOrdered ==
    \A user_id \in Scopes, tie \in TieOrders :
        LET top == get_enhanced_summary(user_id, tie).top_products
            rows == RowsOf(user_id)
        IN  /\ Len(top) <= 5
            /\ Len(top) <= Cardinality({ rows[i].product : i \in DOMAIN rows })
            /\ \A i \in DOMAIN top :
                  top[i].total_sales
                      = AmountSum(SelectSeq(rows, LAMBDA r : r.product = top[i].product))
            /\ \A i, j \in DOMAIN top :
                  i < j => \/ top[i].total_sales > top[j].total_sales
                           \/ /\ top[i].total_sales = top[j].total_sales
                              /\ FirstRowOf(rows, top[i].product) < FirstRowOf(rows, top[j].product)

\* C19: for every scope, the summary carries a date span exactly when some
\* stored row in scope has a date, and then its start is the least and its
\* end the greatest of the dates present in those rows.
C19_DateSpanIsMinMax ==
    \A user_id \in Scopes, tie \in TieOrders :
        LET span == get_enhanced_summary(user_id, tie).date_range
            rows == RowsOf(user_id)
            dates == { rows[i].date : i \in DOMAIN rows } \ {None}
        IN  IF dates = {} THEN ~span.present
            ELSE /\ span.present
                 /\ span.start = MinOf(dates)
                 /\ span.end = MaxOf(dates)

\* --------------------------------------------- claims on the cleaning call
\* the cell of raw row r in the column that ended up under the canonical name
RawCell(name, r) == ReadCell(clean.raw.rows[r][ColIndex(clean.df.columns, name)])

\* the amount a cell is read as: NaN when missing or unparseable
RawAmount(r) ==
    IF RawCell(SALES_AMOUNT, r) = NaN THEN NaN
    ELSE ToNumeric(SelectSeq(RawCell(SALES_AMOUNT, r).s, LAMBDA ch : ch \notin {",", "$"}))

\* C11: after amount normalization of a batch that has a parseable amount, no
\* amount exceeds three times the 99th percentile of the parseable amounts as
\* they stood before capping, every amount above that bound has become the
\* percentile itself and is counted as outlier-capped, and the batch has kept
\* all its rows.
C11_NoAmountAboveTripleP99 ==
    (clean.pc = "numeric" /\ HasCol(clean.df, SALES_AMOUNT) /\ NotNa(clean.parsed) > 0) =>
        LET q99 == Quantile(clean.parsed, 99, 100)
            after == Column(clean.df, SALES_AMOUNT)
            above == { r \in DOMAIN clean.parsed :
                         clean.parsed[r] # NaN /\ RLess(RScale(q99, 3, 1), ValueOf(clean.parsed[r])) }
        IN  /\ Len(after) = clean.original_rows
            /\ \A r \in DOMAIN after : ~RLess(RScale(q99, 3, 1), ValueOf(after[r]))
            /\ \A r \in above : after[r] = NumV(q99)
            /\ clean.numeric_conversions.sales_amount_outliers_capped = Cardinality(above)

\* C12: every row handed to storage has an amount that is not negative and a
\* quantity that is a whole number not below 0; a missing or unparseable
\* amount cell gives 0, a missing or unparseable quantity cell gives 1, an
\* absent column gives the field default, and every row of a file without a
\* date column is handed on.
C12_StoredFieldsInDomain ==
    clean.pc = "done" =>
        /\ \A i \in DOMAIN clean.rows :
              /\ ~RLess(clean.rows[i].sales_amount, Zero)
              /\ clean.rows[i].quantity >= 0
        /\ ~HasCol(clean.df, DATE) =>
              /\ Len(clean.rows) = clean.original_rows
              /\ \A r \in DOMAIN clean.rows :
                    /\ HasCol(clean.df, SALES_AMOUNT) /\ RawAmount(r) = NaN
                          => clean.rows[r].sales_amount = Zero
                    /\ HasCol(clean.df, QUANTITY)
                          /\ (RawCell(QUANTITY, r) = NaN \/ ToNumeric(RawCell(QUANTITY, r).s) = NaN)
                          => clean.rows[r].quantity = 1
                    /\ ~HasCol(clean.df, SALES_AMOUNT) => clean.rows[r].sales_amount = Zero
                    /\ ~HasCol(clean.df, QUANTITY) => clean.rows[r].quantity = 1
                    /\ ~HasCol(clean.df, PRODUCT) => clean.rows[r].product = UNKNOWN
                    /\ ~HasCol(clean.df, CATEGORY) => clean.rows[r].category = UNKNOWN
                    /\ ~HasCol(clean.df, REGION) => clean.rows[r].region = UNKNOWN

\* the text of raw row r in the column that ended up under the canonical name
RawText(name, r) == clean.raw.rows[r][ColIndex(clean.df.columns, name)]

IsNullToken(text) == \E i \in DOMAIN null_patterns : StrLower(StrStrip(text)) = null_patterns[i]

CategoricalCellsOf(frame) ==
    { << categorical_columns[k], r >> :
        k \in { j \in DOMAIN categorical_columns : HasCol(frame.df, categorical_columns[j]) },
        r \in DOMAIN frame.df.data }

Uninformative(frame, row) ==
    /\ HasCol(frame.df, PRODUCT) /\ Cell(frame.df, row, PRODUCT) = StrV(UNKNOWN)
    /\ HasCol(frame.df, SALES_AMOUNT) /\ Cell(frame.df, row, SALES_AMOUNT) = NumV(Zero)

\* C14: when the cleaning call has returned, the frame it returns, whose
\* length is rows_processed, has no row with product "Unknown" and amount 0,
\* and no such row is among the rows handed to storage.
C14_UninformativeRowsDropped ==
    /\ clean.pc \in {"cleaned", "done"} =>
          \A r \in DOMAIN clean.df.data : ~Uninformative(clean, clean.df.data[r])
    /\ clean.pc = "done" =>
          \A i \in DOMAIN clean.rows :
              ~(clean.rows[i].product = UNKNOWN /\ clean.rows[i].sales_amount = Zero)

\* the canonical fields of a row handed to storage
Canonical(row) ==
    << row.date, row.product, row.category, row.sales_amount, row.quantity, row.region >>

\* C15: among the rows one ingestion hands to storage no two are equal in all
\* canonical fields, and the filter report's duplicates_removed is the number
\* of rows of the cleaned batch that repeat an earlier row that survived the
\* first filter.
C15_DuplicatesDropped ==
    clean.pc = "done" =>
        /\ \A i, j \in DOMAIN clean.rows :
              i # j => Canonical(clean.rows[i]) # Canonical(clean.rows[j])
        /\ clean.quality_filters.duplicates_removed
              = Len(clean.df.data) - clean.quality_filters.invalid_product_zero_sales
                  - Len(clean.filtered.data) - clean.quality_filters.extreme_outliers_removed

\* the canonical fields, by position in the scan order, that have a synonym
\* inside the cleaned header
FieldsMatching(header) ==
    { k \in DOMAIN column_mappings :
        \E n \in DOMAIN column_mappings[k].names :
            Contains(CleanHeader(header), column_mappings[k].names[n]) }

\* C16: after the synonym scan every header is mapped to at most one canonical
\* field, and a header whose cleaned form contains synonyms of several
\* canonical fields is mapped to the one of them that comes first in the scan
\* order date, sales_amount, product, category, quantity, region.
C16_FirstFieldInScanOrder ==
    clean.pc = "mapped" =>
        \A i \in DOMAIN clean.raw.headers :
            /\ clean.mapped_columns[i] \in 0..Len(column_mappings)
            /\ Cardinality(FieldsMatching(clean.raw.headers[i])) > 1 =>
                  clean.mapped_columns[i] = MinOf(FieldsMatching(clean.raw.headers[i]))

ExampleCsv ==
    [headers |-> << <<"O","r","d","e","r"," ","D","a","t","e">>, <<"S","K","U">>, <<"R","e","v","e","n","u","e">>, <<"Q","t","y">>, <<"M","a","r","k","e","t">> >>,
     rows |-> << << <<"2","0","2","4","-","0","1","-","0","5">>, <<"W","i","d","g","e","t">>, <<"1","2","0","0",".","5","0">>, <<"3">>, <<"N","o","r","t","h">> >> >>]

\* C17: the CSV with headers Order Date, SKU, Revenue, Qty, Market and the row
\* 2024-01-05, Widget, 1200.50, 3, North has its headers mapped to date,
\* product, sales_amount, quantity and region, and the one row handed to
\* storage has date 2024-01-05, product "Widget", category "Unknown", amount
\* 1200.50, quantity 3 and region "North".
C17_ExampleNormalizes ==
    (clean.pc = "done" /\ clean.raw = ExampleCsv) =>
        /\ [i \in DOMAIN clean.mapped_columns |-> column_mappings[clean.mapped_columns[i]].target]
              = << DATE, PRODUCT, SALES_AMOUNT, QUANTITY, REGION >>
        /\ Len(clean.rows) = 1
        /\ Canonical(clean.rows[1])
              = << DateV(2024, 1, 5), <<"W","i","d","g","e","t">>, UNKNOWN, Quotient(120050, 100), 3, <<"N","o","r","t","h">> >>

\* the example has gone through the whole call
C17_Witness ==
    /\ clean.pc = "done"
    /\ clean.raw = ExampleCsv
    /\ clean.date_parsed
    /\ Len(clean.rows) = 1

\* the positions of the headers whose cleaned form contains "date"
DateHeaders(frame) ==
    { i \in DOMAIN frame.raw.headers : Contains(CleanHeader(frame.raw.headers[i]), DATE) }

\* what the stated procedure gives for a column of raw cells: the first
\* pattern that reads at least 80% of the non-empty cells, else the generic
\* parser if it reads at least 50%, else no date column
StatedDates(cells, pandas) ==
    LET by(k) == [r \in DOMAIN cells |->
                     IF cells[r] = NaN THEN NaN ELSE ParseDate(cells[r].s, date_formats[k])]
        good == { k \in DOMAIN date_formats : NotNa(by(k)) * 10 >= NotNa(cells) * 8 }
        generic == GenericDates(cells, pandas)
    IN  IF good # {} THEN [date_parsed |-> TRUE, dates |-> by(MinOf(good))]
        ELSE IF NotNa(generic) * 10 >= NotNa(cells) * 5 THEN [date_parsed |-> TRUE, dates |-> generic]
        ELSE [date_parsed |-> FALSE, dates |-> << >>]

\* C18: after the date step on a file with one column whose cleaned header
\* contains "date", the column counts as parsed, and holds the dates, exactly
\* as the stated procedure gives them from the column's raw cells: first
\* pattern reading at least 80% of the non-empty cells, else the generic
\* parser at 50%, else not a date column.
C18_FirstPatternOverRawCells ==
    (clean.pc = "dated" /\ Cardinality(DateHeaders(clean)) = 1) =>
        LET c == CHOOSE i \in DateHeaders(clean) : TRUE
            cells == [r \in DOMAIN clean.raw.rows |-> ReadCell(clean.raw.rows[r][c])]
        IN  \E pandas \in PandasVersions :
                /\ clean.date_parsed = StatedDates(cells, pandas).date_parsed
                /\ clean.date_parsed => Column(clean.df, DATE) = StatedDates(cells, pandas).dates

\* C20: when the backend fails inside storage operations, each of them has
\* returned its default and raised nothing: the duplicate check false, the
\* file record, the user and the draft None, the batch insert 0, the summary
\* the all-zero empty summary, the recent drafts an empty list, the clear zero
\* counts; the ingestion and the draft round have met no exception, and the
\* round has dropped the drafts whose insert failed.
C20_StorageFailuresCaught ==
    /\ resp.op = "storage_call" =>
          /\ ~resp.raised
          /\ resp.call \in {"create_user", "get_user"} => resp.value = None
          /\ resp.call = "get_recent_articles" => resp.value = << >>
          /\ resp.call = "clear_user_data" => resp.value = ZeroCounts
    /\ resp.op = "ingest" =>
          /\ ~resp.raised
          /\ "check_file_duplicate" \in resp.failing => ~resp.duplicate_upload
          /\ "get_enhanced_summary" \in resp.failing => resp.summary = EmptySummary
          /\ (resp.parsed /\ ~resp.duplicate_upload) =>
                /\ "record_file_upload" \in resp.failing => resp.file_upload_id = None
                /\ "insert_sales_data_batch" \in resp.failing => resp.rows_stored = 0
    /\ round.response.op = "generate" =>
          /\ round.response.status # "exception"
          /\ "get_enhanced_summary" \in round.response.failing =>
                /\ round.response.summary = EmptySummary
                /\ round.response.status = "error"
          /\ \A i \in DOMAIN round.response.articles : round.response.articles[i] # NoArticle

\* an ingestion of a file that was ingested before, with the backend failing
\* inside all four operations, has answered success with nothing stored
C20_Witness ==
    /\ resp.op = "ingest"
    /\ resp.failing = IngestOps
    /\ uploaded # {}
    /\ resp.status = "success"
    /\ resp.rows_stored = 0
    /\ resp.file_upload_id = None
    /\ resp.summary = EmptySummary

\* ================================================== concurrent ingestion
\* two requests carry the same bytes for the same owner
SameUpload(a, b) ==
    /\ a # b
    /\ uploads[a].pc # "idle" /\ uploads[b].pc # "idle"
    /\ uploads[a].file_hash = uploads[b].file_hash
    /\ uploads[a].user_id = uploads[b].user_id

\* stored rows of an owner that point at a file record
RowsOfFile(user_id, file_upload_id) ==
    { i \in DOMAIN sales_data : sales_data[i].user_id = user_id
                                 /\ sales_data[i].file_upload_id = file_upload_id }

\* C21: nothing serializes two ingestions of the same bytes: while one of
\* them stands between its duplicate check and its return, the duplicate
\* check of the other can run; and when both have passed the check as not
\* duplicate, both report duplicate_upload = false with all their rows
\* stored, so the rows of the file are stored twice.
C21_IngestionsNotSerialized ==
    \A a, b \in Requests :
        SameUpload(a, b) =>
            /\ (uploads[a].pc \in {"record", "insert", "summary"} /\ uploads[b].pc = "check")
                  => ENABLED UploadCheck(b)
            /\ (/\ uploads[a].pc = "done" /\ uploads[b].pc = "done"
                /\ ~uploads[a].is_duplicate /\ ~uploads[b].is_duplicate
                /\ FileTable(uploads[a].content).parsed)
                  => /\ uploads[a].response.status = "success"
                     /\ uploads[b].response.status = "success"
                     /\ ~uploads[a].response.duplicate_upload
                     /\ ~uploads[b].response.duplicate_upload
                     /\ uploads[a].response.rows_stored = Len(FileTable(uploads[a].content).rows)
                     /\ uploads[b].response.rows_stored = Len(FileTable(uploads[b].content).rows)
                     /\ Cardinality(RowsOfFile(uploads[a].user_id, uploads[a].file_upload_id))
                            >= 2 * Len(FileTable(uploads[a].content).rows)

\* both requests passed the duplicate check before either recorded the
\* fingerprint, and both have returned
C21_Witness ==
    /\ SameUpload(1, 2)
    /\ uploads[1].pc = "done" /\ uploads[2].pc = "done"
    /\ ~uploads[1].response.duplicate_upload /\ ~uploads[2].response.duplicate_upload
    /\ uploads[1].response.status = "success" /\ uploads[2].response.status = "success"
    /\ Len(file_uploads) = 1
    /\ Len(sales_data) = 2 * Len(FileTable(uploads[1].content).rows)

\* ====================================================== insight generation
\* the rule of _generate_insights_from_data a sentence belongs to
SummaryRule(tag) ==
    CASE tag \in {"single_product", "high_diversity"} -> 1
      [] tag \in {"high_value", "low_value"} -> 2
      [] tag \in {"single_region", "multi_region"} -> 3
      [] tag = "concentration" -> 4

\* the rule of _generate_comprehensive_insights a sentence belongs to
IngestionRule(tag) ==
    CASE tag = "data_quality" -> 1
      [] tag = "dataset" -> 2
      [] tag \in {"high_value", "low_value"} -> 3
      [] tag \in {"high_concentration", "well_diversified"} -> 4
      [] tag \in {"single_region", "many_regions"} -> 5
      [] tag \in {"extensive_catalog", "limited_range"} -> 6
      [] tag = "mapped_columns" -> 7
      [] tag \in {"high_variability", "consistent_values"} -> 8
      [] tag = "multi_quarter" -> 9

\* C22: the summary path returns at most four insights and the ingestion
\* path at most six; on either path the sentences stand in the order of
\* their rules with no rule represented twice, and the ingestion list is
\* the first six of the sentences the rules appended (all of them when
\* there are fewer), never a later or re-sorted selection.
C22_InsightsCappedInRuleOrder ==
    resp.op = "insights" =>
        /\ Len(resp.summary_insights) <= 4
        /\ \A i, j \in DOMAIN resp.summary_insights :
              i < j => SummaryRule(resp.summary_insights[i]) < SummaryRule(resp.summary_insights[j])
        /\ ~resp.raised =>
              /\ Len(resp.insights) <= 6
              /\ \A i, j \in DOMAIN resp.appended :
                    i < j => IngestionRule(resp.appended[i]) < IngestionRule(resp.appended[j])
              /\ Len(resp.insights) = IF Len(resp.appended) < 6 THEN Len(resp.appended) ELSE 6
              /\ \A i \in DOMAIN resp.insights : resp.insights[i] = resp.appended[i]

\* all nine ingestion rules fired and three of them were cut, while the
\* in-memory summary of the same rows carries three sentences
C22_Witness ==
    /\ resp.op = "insights"
    /\ use_memory
    /\ ~resp.raised
    /\ Len(resp.appended) = 9
    /\ Len(resp.insights) = 6
    /\ Len(resp.summary_insights) = 3

\* ================================================== ingestion bookkeeping
\* C23: an ingestion of a readable, not yet uploaded file skips the rows
\* whose typed construction fails, stores the others, and reports as
\* rows_stored the number of rows it converted, never more than
\* rows_processed.
C23_SkippedRowsStillStored ==
    [][\A c \in AggContents, tie \in TieOrders :
          (/\ UploadData(c, "a.csv", tie)
           /\ FileTable(c).parsed
           /\ ~check_file_duplicate(calculate_file_hash(c), current_user_id))
          => /\ Len(sales_data') = Len(sales_data) + Len(convert_to_sales_data(FileTable(c).rows))
             /\ resp'.rows_stored = Len(convert_to_sales_data(FileTable(c).rows))
             /\ resp'.rows_stored <= resp'.rows_processed]_vars

\* C24: an ingestion answered with status = error and rows_stored = 0 has
\* left the rows, the file records and the fingerprints as they were,
\* at whichever stage it failed.
C24_ErrorLeavesStoreUntouched ==
    [][\A c \in AggContents, tie \in TieOrders :
          (UploadData(c, "a.csv", tie) /\ resp'.status = "error")
          => /\ resp'.rows_stored = 0
             /\ UNCHANGED << sales_data, file_uploads, file_hashes >>]_vars

\* C25: in every reachable store the summary of every scope counts exactly
\* the rows stored in that scope, whatever their amounts sum to.
C25_RecordCountIsRowCount ==
    \A user_id \in Scopes, tie \in TieOrders :
        get_enhanced_summary(user_id, tie).record_count = Len(RowsOf(user_id))

\* C26: the row count of every file record equals the number of stored
\* rows that reference the record.
C26_FileRecordCountsItsRows ==
    \A i \in DOMAIN file_uploads :
        file_uploads[i].record_count =
            Cardinality({ j \in DOMAIN sales_data :
                             sales_data[j].file_upload_id = file_uploads[i].id })

\* C29: every stored row references a file record of the row's own owner.
C29_RowOwnerIsFileOwner ==
    \A j \in DOMAIN sales_data :
        \A i \in DOMAIN file_uploads :
            file_uploads[i].id = sales_data[j].file_upload_id
                => file_uploads[i].user_id = sales_data[j].user_id

\* ======================================================= clear and re-use
\* C27: right after a successful clear-data of the current user, an
\* ingestion of content that user had ingested before the clear is a new
\* upload: it is answered success with duplicate_upload = false and its
\* rows are stored again.
C27_ClearedContentUploadsAnew ==
    [][\A c \in StoreContents, filename \in Filenames, tie \in TieOrders :
          (/\ UploadData(c, filename, tie)
           /\ resp.op = "clear" /\ resp.status = "success"
           /\ c \in resp.contents)
          => /\ resp'.status = "success"
             /\ ~resp'.duplicate_upload
             /\ resp'.rows_stored = Len(FileTable(c).rows)
             /\ Len(sales_data') = Len(sales_data) + Len(FileTable(c).rows)]_vars

\* C28: in the in-memory store no two stored rows share an id, no two file
\* records share an id and no two drafts share an id.
C28_MemoryIdsUnique ==
    use_memory =>
        /\ \A i, j \in DOMAIN sales_data : sales_data[i].id = sales_data[j].id => i = j
        /\ \A i, j \in DOMAIN file_uploads : file_uploads[i].id = file_uploads[j].id => i = j
        /\ \A i, j \in DOMAIN articles : articles[i].id = articles[j].id => i = j

\* ============================================================ recent drafts
\* C30: an accepted recent-drafts query with window `days` returns drafts
\* of the current owner only (of every owner when none is selected), each
\* stored draft at most once, every such draft generated fewer than `days`
\* days ago and none generated more than `days` days ago.
C30_RecentIsWindowOfOwner ==
    [][\A days \in {1, 7} :
          GetRecentArticles(days) =>
              LET visible == { i \in DOMAIN articles :
                                  current_user_id = None \/ articles[i].user_id = current_user_id }
                  returned == { resp'.articles[k].id : k \in DOMAIN resp'.articles }
              IN  /\ resp'.status = 200
                  /\ Cardinality(returned) = Len(resp'.articles)
                  /\ returned \subseteq { articles[i].id : i \in visible }
                  /\ \A i \in visible :
                        /\ today - articles[i].generated_date < days => articles[i].id \in returned
                        /\ today - articles[i].generated_date > days => articles[i].id \notin returned]_vars
====
